---- MODULE Spec2Model ----
(***************************************************************************)
(* A model of slackle: the callback registry, the plugin system with its   *)
(* hook dispatcher, and the payload dispatch pipeline of the three Slack   *)
(* webhook routes.                                                         *)
(***************************************************************************)
EXTENDS Integers, Sequences, FiniteSets, TLC

VARIABLES
    regs,        \* the SlackCallbackRegistry objects: "app" is app.callback
    merged,      \* the registry returned by the last SlackCallbackRegistry.merge
    regLog,      \* history: the registrations and update_from calls so far, in order
    lastReg,     \* history: the last registry operation and the registries before it
    config,      \* app.config: ignore_bot_events, ignore_retry_events, app_user_id
    booted,      \* Slackle.__booted
    plugin_setup_mode,  \* Slackle.__plugin_setup_mode
    plugins,     \* Slackle._plugins, the list the HookDispatcher shares
    app_attrs,   \* the attributes of the app object, by name
    plugin_attrs,\* Slackle._plugin_attrs
    lifespan,    \* the server's lifespan: "init", "up", "failed", "down"
    hookLog,     \* history: the hook calls of the startup and shutdown emissions
    lastCall,    \* history: the last add_plugin call and its outcome
    lastEmit,    \* history: the last startup or shutdown emission
    clientLog,   \* history: the SlackClient calls made and what each returned
    reqs         \* the requests in flight, one per slot

regVars == <<regs, merged, regLog, lastReg>>
appVars == <<config, booted, plugin_setup_mode, plugins, app_attrs, plugin_attrs,
             lifespan, hookLog, lastCall, lastEmit>>
vars == <<regs, merged, regLog, lastReg, config, booted, plugin_setup_mode, plugins,
          app_attrs, plugin_attrs, lifespan, hookLog, lastCall, lastEmit, clientLog,
          reqs>>

(***************************************************************************)
(* Values                                                                  *)
(***************************************************************************)

\* Python's None, kept apart from every string the model uses.
None == "<None>"

\* str(x) as an f-string formats it: None becomes the text "None".
ToStr(x) == IF x = None THEN "None" ELSE x

\* dict.get(key): the value, or None when the key is absent.
DictGet(d, k) == IF k \in DOMAIN d THEN d[k] ELSE None

\* dict.update(other): other's entries are written over d's.
DictUpdate(d, other) ==
    [k \in DOMAIN d \cup DOMAIN other |-> IF k \in DOMAIN other THEN other[k] ELSE d[k]]

\* d[key] = value.
DictSet(d, k, v) == [x \in DOMAIN d \cup {k} |-> IF x = k THEN v ELSE d[x]]

EmptyDict == [k \in {} |-> None]

(***************************************************************************)
(* Bounds and input sets                                                   *)
(***************************************************************************)

\* registry operations in one behaviour of SpecRegistry
MaxRegOps == 3
\* add_plugin calls in one behaviour of SpecPlugin
MaxPluginOps == 2
\* SlackClient calls in one behaviour of SpecClient
MaxClientOps == 2
RegIds == {"app", "r1"}
Categories == {"events", "command", "interactivity"}
Names == {"message", "/hello"}
Handlers == {"h1", "h2"}

(***************************************************************************)
(* SlackCallbackRegistry                                                   *)
(***************************************************************************)

\* SlackCallbackRegistry.__init__
NewRegistry ==
    [callbacks |-> EmptyDict, events |-> EmptyDict,
     commands |-> EmptyDict, actions |-> EmptyDict]

\* SlackCallbackRegistry.get
get(self, callback) == DictGet(self.callbacks, callback)

\* SlackCallbackRegistry.has / __contains__
has(self, callback) == callback \in DOMAIN self.callbacks

\* SlackCallbackRegistry.__len__
len(self) == Cardinality(DOMAIN self.callbacks)

\* event() that keeps the handler a key already has
event_keeps_first(self, event_type, func) ==
    IF "events:" \o ToStr(event_type) \in DOMAIN self.callbacks THEN self
    ELSE [self EXCEPT !.callbacks = DictSet(@, "events:" \o ToStr(event_type), func),
                      !.events = DictSet(@, event_type, func)]

\* SlackCallbackRegistry.event(event_type)(func)
event(self, event_type, func) ==
    [self EXCEPT !.callbacks = DictSet(@, "events:" \o ToStr(event_type), func),
                 !.events = DictSet(@, event_type, func)]

\* command() that writes the combined mapping and leaves the commands view alone
command_skips_view(self, command_name, func) ==
    [self EXCEPT !.callbacks = DictSet(@, "command:" \o ToStr(command_name), func)]

\* SlackCallbackRegistry.command(command_name)(func)
command(self, command_name, func) ==
    [self EXCEPT !.callbacks = DictSet(@, "command:" \o ToStr(command_name), func),
                 !.commands = DictSet(@, command_name, func)]

\* action() that builds its key from the decorator's name, not the route's
action_keyed_action(self, action_id, func) ==
    [self EXCEPT !.callbacks = DictSet(@, "action:" \o ToStr(action_id), func),
                 !.actions = DictSet(@, action_id, func)]

\* SlackCallbackRegistry.action(action_id)(func)
action(self, action_id, func) ==
    [self EXCEPT !.callbacks = DictSet(@, "interactivity:" \o ToStr(action_id), func),
                 !.actions = DictSet(@, action_id, func)]

\* update_from() in which the entries already present win
update_from_keeps_own(self, other) ==
    [callbacks |-> DictUpdate(other.callbacks, self.callbacks),
     events |-> DictUpdate(other.events, self.events),
     commands |-> DictUpdate(other.commands, self.commands),
     actions |-> DictUpdate(other.actions, self.actions)]

\* SlackCallbackRegistry.update_from
update_from(self, other) ==
    [callbacks |-> DictUpdate(self.callbacks, other.callbacks),
     events |-> DictUpdate(self.events, other.events),
     commands |-> DictUpdate(self.commands, other.commands),
     actions |-> DictUpdate(self.actions, other.actions)]

\* SlackCallbackRegistry.merge: a new registry updated from each argument in turn
RECURSIVE merge(_)
merge(callbacks) ==
    IF callbacks = <<>> THEN NewRegistry
    ELSE update_from(merge(SubSeq(callbacks, 1, Len(callbacks) - 1)),
                     callbacks[Len(callbacks)])

\* The decorator of a category: event / command / action, which
\* Slackle.on_event / on_command / on_action return unchanged.
Register(self, c, n, h) ==
    CASE c = "events" -> event(self, n, h)
      [] c = "command" -> command(self, n, h)
      [] c = "interactivity" -> action(self, n, h)

(***************************************************************************)
(* SlackleContext and SlackleConfig                                        *)
(***************************************************************************)

\* SlackleContext(): not skipped, no reason
NewContext == [is_skipped |-> FALSE, reason |-> None]

\* SlackleContext.skip(reason=None)
skip(context, reason) == [is_skipped |-> TRUE, reason |-> reason]

\* the values of the three SlackleConfig fields the dispatch reads
Configs ==
    [ignore_bot_events : BOOLEAN, ignore_retry_events : BOOLEAN,
     app_user_id : {None, "UBOT"}]

DefaultConfig ==
    [ignore_bot_events |-> FALSE, ignore_retry_events |-> FALSE, app_user_id |-> None]

(***************************************************************************)
(* Plugins and the hook dispatcher                                         *)
(***************************************************************************)

\* The plugin classes handed to add_plugin.  methods lists the attributes
\* tagged by on_slackle_event in dir() order: attr the attribute name, func
\* the function behind it, shape "method" for def hook(self, app, **context)
\* as documented and "wide" for a callable that also takes the extra leading
\* argument dispatch passes, effect what its body does: nothing, mark the
\* context skipped, raise, or graft an attribute on the app it is given.
\* setup is what setup(app) does: nothing, graft an attribute or a method
\* (override or not), emit a hook, or raise.  isclass tells a class from an object that
\* is already an instance; subclass, whether it derives from SlacklePlugin.
NoSetup == [do |-> "none"]

PluginDefs ==
    [Quiet |->
        [isclass |-> TRUE, subclass |-> TRUE, setup |-> NoSetup, methods |-> <<>>],
     Audit |->
        [isclass |-> TRUE, subclass |-> TRUE, setup |-> NoSetup,
         methods |-> <<
            [attr |-> "on_post", func |-> "on_post", event |-> "slack.post_handle",
             shape |-> "wide", async |-> TRUE, effect |-> "none"],
            [attr |-> "on_pre", func |-> "on_pre", event |-> "slack.pre_handle",
             shape |-> "wide", async |-> FALSE, effect |-> "none"],
            [attr |-> "on_start", func |-> "on_start", event |-> "startup",
             shape |-> "wide", async |-> TRUE, effect |-> "none"],
            [attr |-> "on_stop", func |-> "on_stop", event |-> "shutdown",
             shape |-> "wide", async |-> TRUE, effect |-> "none"],
            [attr |-> "on_unhandled", func |-> "on_unhandled", event |-> "slack.unhandled",
             shape |-> "wide", async |-> TRUE, effect |-> "none"] >>],
     Skipper |->
        [isclass |-> TRUE, subclass |-> TRUE, setup |-> NoSetup,
         methods |-> <<
            [attr |-> "veto", func |-> "veto", event |-> "slack.pre_handle",
             shape |-> "wide", async |-> TRUE, effect |-> "skip"] >>],
     Documented |->
        [isclass |-> TRUE, subclass |-> TRUE, setup |-> NoSetup,
         methods |-> <<
            [attr |-> "on_startup", func |-> "on_startup", event |-> "startup",
             shape |-> "method", async |-> TRUE, effect |-> "none"] >>],
     Formatter |->
        [isclass |-> TRUE, subclass |-> TRUE,
         setup |-> [do |-> "attribute", name |-> "formatter", override |-> FALSE],
         methods |-> <<>>],
     NotAPlugin |->
        [isclass |-> TRUE, subclass |-> FALSE, setup |-> NoSetup, methods |-> <<>>],
     Metrics |->
        [isclass |-> TRUE, subclass |-> TRUE, setup |-> NoSetup,
         methods |-> <<
            [attr |-> "count_start", func |-> "count_start", event |-> "startup",
             shape |-> "wide", async |-> FALSE, effect |-> "none"],
            [attr |-> "on_error", func |-> "on_error", event |-> "slack.error",
             shape |-> "wide", async |-> TRUE, effect |-> "none"],
            [attr |-> "on_halt", func |-> "on_halt", event |-> "shutdown",
             shape |-> "wide", async |-> FALSE, effect |-> "none"],
            [attr |-> "time_start", func |-> "time_start", event |-> "startup",
             shape |-> "wide", async |-> TRUE, effect |-> "none"] >>],
     Fragile |->
        [isclass |-> TRUE, subclass |-> TRUE, setup |-> NoSetup,
         methods |-> <<
            [attr |-> "a_check", func |-> "a_check", event |-> "startup",
             shape |-> "wide", async |-> TRUE, effect |-> "raise"],
            [attr |-> "b_report", func |-> "b_report", event |-> "startup",
             shape |-> "wide", async |-> TRUE, effect |-> "none"],
            [attr |-> "on_error", func |-> "on_error", event |-> "slack.error",
             shape |-> "wide", async |-> TRUE, effect |-> "raise"] >>],
     Reporter |->
        [isclass |-> TRUE, subclass |-> TRUE, setup |-> NoSetup,
         methods |-> <<
            [attr |-> "on_error", func |-> "on_error", event |-> "slack.error",
             shape |-> "method", async |-> TRUE, effect |-> "none"] >>],
     Broken |->
        [isclass |-> TRUE, subclass |-> TRUE, setup |-> [do |-> "raise"],
         methods |-> <<>>],
     Overrider |->
        [isclass |-> TRUE, subclass |-> TRUE,
         setup |-> [do |-> "attribute", name |-> "formatter", override |-> TRUE],
         methods |-> <<>>],
     Clash |->
        [isclass |-> TRUE, subclass |-> TRUE,
         setup |-> [do |-> "method", name |-> "callback", override |-> FALSE],
         methods |-> <<>>],
     Aliased |->
        [isclass |-> TRUE, subclass |-> TRUE, setup |-> NoSetup,
         methods |-> <<
            [attr |-> "on_boot", func |-> "on_boot", event |-> "startup",
             shape |-> "wide", async |-> TRUE, effect |-> "none"],
            [attr |-> "on_boot_alias", func |-> "on_boot", event |-> "startup",
             shape |-> "wide", async |-> TRUE, effect |-> "none"] >>],
     Announcer |->
        [isclass |-> TRUE, subclass |-> TRUE,
         setup |-> [do |-> "emit", event |-> "plugin.added"],
         methods |-> <<
            [attr |-> "on_added", func |-> "on_added", event |-> "plugin.added",
             shape |-> "wide", async |-> FALSE, effect |-> "none"] >>],
     Flaky |->
        [isclass |-> TRUE, subclass |-> TRUE, setup |-> NoSetup,
         methods |-> <<
            [attr |-> "on_error", func |-> "on_error", event |-> "slack.error",
             shape |-> "wide", async |-> TRUE, effect |-> "none"],
            [attr |-> "on_post", func |-> "on_post", event |-> "slack.post_handle",
             shape |-> "wide", async |-> TRUE, effect |-> "raise"],
            [attr |-> "on_unhandled", func |-> "on_unhandled", event |-> "slack.unhandled",
             shape |-> "wide", async |-> TRUE, effect |-> "raise"] >>],
     Strict |->
        [isclass |-> TRUE, subclass |-> TRUE, setup |-> NoSetup,
         methods |-> <<
            [attr |-> "on_error", func |-> "on_error", event |-> "slack.error",
             shape |-> "wide", async |-> TRUE, effect |-> "none"],
            [attr |-> "on_pre", func |-> "on_pre", event |-> "slack.pre_handle",
             shape |-> "wide", async |-> TRUE, effect |-> "raise"] >>],
     Gate |->
        [isclass |-> TRUE, subclass |-> TRUE, setup |-> NoSetup,
         methods |-> <<
            [attr |-> "a_veto", func |-> "a_veto", event |-> "slack.pre_handle",
             shape |-> "wide", async |-> TRUE, effect |-> "skip"],
            [attr |-> "b_log", func |-> "b_log", event |-> "slack.pre_handle",
             shape |-> "wide", async |-> FALSE, effect |-> "none"] >>],
     LateGrafter |->
        [isclass |-> TRUE, subclass |-> TRUE, setup |-> NoSetup,
         methods |-> <<
            [attr |-> "on_start", func |-> "on_start", event |-> "startup",
             shape |-> "wide", async |-> TRUE, effect |-> "graft"] >>],
     StopGrafter |->
        [isclass |-> TRUE, subclass |-> TRUE, setup |-> NoSetup,
         methods |-> <<
            [attr |-> "on_stop", func |-> "on_stop", event |-> "shutdown",
             shape |-> "wide", async |-> TRUE, effect |-> "graft"] >>],
     QuietInstance |->
        [isclass |-> FALSE, subclass |-> FALSE, setup |-> NoSetup, methods |-> <<>>]]

PluginClasses == DOMAIN PluginDefs

\* a list without the entries whose func is already in it earlier
RECURSIVE Dedupe(_)
Dedupe(hooks) ==
    IF hooks = <<>> THEN <<>>
    ELSE LET rest == Dedupe(SubSeq(hooks, 1, Len(hooks) - 1))
             h == hooks[Len(hooks)]
         IN IF \E i \in 1..Len(rest) : rest[i].func = h.func THEN rest ELSE Append(rest, h)

\* SlacklePlugin._collect_event_hooks: per event name, the tagged attributes
\* in dir() order, each bound method once; only events with a hook get a key
_collect_event_hooks(cls) ==
    LET ms == PluginDefs[cls].methods
        evs == {ms[i].event : i \in 1..Len(ms)}
    IN [e \in evs |-> Dedupe(SelectSeq(ms, LAMBDA m : m.event = e))]

\* SlacklePlugin.__init__: plugin(), as add_plugin constructs it
NewPlugin(cls, late) ==
    [cls |-> cls, late |-> late, _event_hooks |-> _collect_event_hooks(cls)]

\* dict.get(key, []) on a plugin's hook mapping
HooksFor(d, k) == IF k \in DOMAIN d THEN d[k] ELSE <<>>

\* a lookup that inserts the default for a missing key, as indexing a
\* defaultdict does
AfterLookup_defaultdict(d, k) == IF k \in DOMAIN d THEN d ELSE DictSet(d, k, <<>>)

\* a plugin's hook mapping after dispatch has looked an event up in it with
\* .get(event, []), which inserts nothing
AfterLookup(d, k) == d

\* register_plugin_attribute() without the hasattr test: an existing
\* attribute is overwritten whatever override says
register_plugin_attribute_overwrites(isBooted, mode, attrs, pattrs, name, value, override) ==
    IF isBooted \/ ~mode
    THEN [raised |-> "RuntimeError", app_attrs |-> attrs, plugin_attrs |-> pattrs]
    ELSE [raised |-> None, app_attrs |-> DictSet(attrs, name, value),
          plugin_attrs |-> DictSet(pattrs, name, value)]

\* Slackle.register_plugin_attribute / register_plugin_method (the two have
\* the same body): the exception raised, or None with the attributes set
register_plugin_attribute(isBooted, mode, attrs, pattrs, name, value, override) ==
    IF isBooted
    THEN [raised |-> "RuntimeError", app_attrs |-> attrs, plugin_attrs |-> pattrs]
    ELSE IF ~mode
    THEN [raised |-> "RuntimeError", app_attrs |-> attrs, plugin_attrs |-> pattrs]
    ELSE IF name \in DOMAIN attrs /\ ~override
    THEN [raised |-> "AttributeError", app_attrs |-> attrs, plugin_attrs |-> pattrs]
    ELSE [raised |-> None, app_attrs |-> DictSet(attrs, name, value),
          plugin_attrs |-> DictSet(pattrs, name, value)]

\* the state an emission threads through its hooks: the calls made, the
\* context handed to them, the exception raised, and the app they are given
\* (its started flag, setup mode and attributes); grafts is history, the
\* outcome of each register_plugin_attribute call a hook made
NewEmission(context) ==
    [calls |-> <<>>, context |-> context, raised |-> None,
     app |-> [booted |-> booted, mode |-> plugin_setup_mode,
              app_attrs |-> app_attrs, plugin_attrs |-> plugin_attrs],
     grafts |-> <<>>]

\* one hook called as dispatch calls it, hook(self, app, **kwargs): a bound
\* method declared (self, app, **context) gets one positional too many
CallHook(em, idx, hook) ==
    LET call == [plugin |-> idx, attr |-> hook.attr, event |-> hook.event,
                 ran |-> hook.shape # "method"]
    IN IF hook.shape = "method"
       THEN [em EXCEPT !.calls = Append(@, call), !.raised = "TypeError"]
       ELSE CASE hook.effect = "skip" ->
                   [em EXCEPT !.calls = Append(@, call),
                              !.context = skip(@, "hook")]
              [] hook.effect = "raise" ->
                   [em EXCEPT !.calls = Append(@, call), !.raised = "HookError"]
              [] hook.effect = "graft" ->
                   LET r == register_plugin_attribute(
                                em.app.booted, em.app.mode, em.app.app_attrs,
                                em.app.plugin_attrs, "late", hook.attr, FALSE)
                   IN [em EXCEPT !.calls = Append(@, call),
                                 !.raised = r.raised,
                                 !.app.app_attrs = r.app_attrs,
                                 !.app.plugin_attrs = r.plugin_attrs,
                                 !.grafts = Append(@, r.raised)]
              [] OTHER -> [em EXCEPT !.calls = Append(@, call)]

\* dispatch() that goes on with the plugin's next hook after one has raised
RECURSIVE dispatch_keeps_going(_, _, _, _)
dispatch_keeps_going(em, idx, hooks, i) ==
    IF i > Len(hooks) THEN em
    ELSE dispatch_keeps_going(
            [CallHook([em EXCEPT !.raised = None], idx, hooks[i])
                EXCEPT !.raised = IF em.raised # None THEN em.raised ELSE @],
            idx, hooks, i + 1)

\* dispatch() that also ends its loop once a hook has marked the context skipped
RECURSIVE dispatch_stops_on_skip(_, _, _, _)
dispatch_stops_on_skip(em, idx, hooks, i) ==
    IF i > Len(hooks) \/ em.raised # None \/ em.context.is_skipped THEN em
    ELSE dispatch_stops_on_skip(CallHook(em, idx, hooks[i]), idx, hooks, i + 1)

\* SlacklePlugin.dispatch: the hooks of the event, in list order; the first
\* that raises ends the loop
RECURSIVE dispatch(_, _, _, _)
dispatch(em, idx, hooks, i) ==
    IF i > Len(hooks) \/ em.raised # None THEN em
    ELSE dispatch(CallHook(em, idx, hooks[i]), idx, hooks, i + 1)

\* emit() that walks the plugin list from its newest entry to its oldest
RECURSIVE emit_newest_first(_, _, _, _)
emit_newest_first(em, plugs, hook_name, i) ==
    IF i > Len(plugs) \/ em.raised # None THEN em
    ELSE emit_newest_first(
            dispatch(em, Len(plugs) + 1 - i,
                     HooksFor(plugs[Len(plugs) + 1 - i]._event_hooks, hook_name), 1),
            plugs, hook_name, i + 1)

\* HookDispatcher.emit: every plugin of the list in order
RECURSIVE emit(_, _, _, _)
emit(em, plugs, hook_name, i) ==
    IF i > Len(plugs) \/ em.raised # None THEN em
    ELSE emit(dispatch(em, i, HooksFor(plugs[i]._event_hooks, hook_name), 1),
              plugs, hook_name, i + 1)

\* the plugin list as an emission leaves it: every plugin whose dispatch was
\* called has had the event looked up in its mapping
PluginsAfterEmit(plugs, hook_name, em) ==
    [k \in 1..Len(plugs) |->
        IF em.raised = None \/ em.calls = <<>> \/ k <= em.calls[Len(em.calls)].plugin
        THEN [plugs[k] EXCEPT !._event_hooks = AfterLookup(@, hook_name)]
        ELSE plugs[k]]

(***************************************************************************)
(* Slackle: plugin registration and the lifespan handlers                  *)
(***************************************************************************)

\* the attributes the app object has before any plugin grafts one
BuiltinAttrs == [n \in {"callback", "hooks"} |-> "builtin"]

\* plugin.setup(app) of a freshly constructed plugin, run in setup mode
\* calls is history: the hook calls of an emission made by the setup, which
\* goes to the plugins already in the list
RunSetup(cls) ==
    LET su == PluginDefs[cls].setup
    IN CASE su.do \in {"attribute", "method"} ->
              register_plugin_attribute(booted, TRUE, app_attrs, plugin_attrs,
                                        su.name, cls, su.override) @@ [calls |-> <<>>]
         [] su.do = "emit" ->
              LET em == emit([NewEmission(NewContext) EXCEPT !.app.mode = TRUE],
                             plugins, su.event, 1)
              IN [raised |-> em.raised, app_attrs |-> em.app.app_attrs,
                  plugin_attrs |-> em.app.plugin_attrs, calls |-> em.calls]
         [] su.do = "raise" ->
              [raised |-> "SetupError", app_attrs |-> app_attrs,
               plugin_attrs |-> plugin_attrs, calls |-> <<>>]
         [] OTHER ->
              [raised |-> None, app_attrs |-> app_attrs, plugin_attrs |-> plugin_attrs,
               calls |-> <<>>]

\* issubclass() that takes every class for a subclass of SlacklePlugin
issubclass_accepts_all(cls) == TRUE

\* issubclass(plugin, SlacklePlugin), for a plugin that is a class
issubclass(cls) == PluginDefs[cls].subclass

\* whether issubclass can be asked at all: given an object that is not a
\* class it raises TypeError itself
IsClass(cls) == PluginDefs[cls].isclass

\* plugin in self._plugins: the class object compared with the instances
InPlugins(cls, plugs) == \E i \in 1..Len(plugs) : plugs[i] = [class |-> cls]

\* Slackle.add_plugin(plugin): what it raises (or None) and the state it leaves
\* add_plugin() that puts the instance in the list before calling its
\* setup, and at the front of the list
add_plugin_inserts_first(cls) ==
    IF ~IsClass(cls) \/ ~issubclass(cls)
    THEN [raised |-> "TypeError", plugins |-> plugins, mode |-> TRUE,
          app_attrs |-> app_attrs, plugin_attrs |-> plugin_attrs,
          constructed |-> FALSE, setup_called |-> FALSE, setup_calls |-> <<>>]
    ELSE LET r == RunSetup(cls)
         IN [raised |-> r.raised,
             plugins |-> <<NewPlugin(cls, lifespan = "up")>> \o plugins,
             mode |-> r.raised # None,
             app_attrs |-> r.app_attrs, plugin_attrs |-> r.plugin_attrs,
             constructed |-> TRUE, setup_called |-> TRUE,
             setup_calls |-> r.calls]

\* constructed and setup_called are history: whether plugin() and
\* plugin.setup(app) were reached; setup_calls, the hook calls made while the
\* setup ran
add_plugin(cls) ==
    IF ~IsClass(cls) \/ ~issubclass(cls)
    THEN [raised |-> "TypeError", plugins |-> plugins, mode |-> TRUE,
          app_attrs |-> app_attrs, plugin_attrs |-> plugin_attrs,
          constructed |-> FALSE, setup_called |-> FALSE, setup_calls |-> <<>>]
    ELSE IF InPlugins(cls, plugins)
    THEN [raised |-> "ValueError", plugins |-> plugins, mode |-> TRUE,
          app_attrs |-> app_attrs, plugin_attrs |-> plugin_attrs,
          constructed |-> FALSE, setup_called |-> FALSE, setup_calls |-> <<>>]
    ELSE LET r == RunSetup(cls)
         IN IF r.raised # None
            THEN [raised |-> r.raised, plugins |-> plugins, mode |-> TRUE,
                  app_attrs |-> r.app_attrs, plugin_attrs |-> r.plugin_attrs,
                  constructed |-> TRUE, setup_called |-> TRUE,
                  setup_calls |-> r.calls]
            ELSE [raised |-> None,
                  plugins |-> Append(plugins, NewPlugin(cls, lifespan = "up")),
                  mode |-> FALSE,
                  app_attrs |-> r.app_attrs, plugin_attrs |-> r.plugin_attrs,
                  constructed |-> TRUE, setup_called |-> TRUE,
                  setup_calls |-> r.calls]

PluginOpCount == IF lastCall.op = "none" THEN 0 ELSE lastCall.count

\* history: the classes of the add_plugin calls that returned, in call order
Added == IF lastCall.op = "none" THEN <<>> ELSE lastCall.added

\* Slackle.list_plugins
list_plugins == [k \in 1..Len(plugins) |-> plugins[k].cls]

AppInit ==
    /\ booted = FALSE
    /\ plugin_setup_mode = FALSE
    /\ plugins = <<>>
    /\ app_attrs = BuiltinAttrs
    /\ plugin_attrs = EmptyDict
    /\ lifespan = "init"
    /\ hookLog = <<>>
    /\ lastCall = [op |-> "none"]
    /\ lastEmit = [event |-> None]
    /\ clientLog = <<>>

\* app.add_plugin(cls)
AddPlugin(cls) ==
    /\ PluginOpCount < MaxPluginOps
    /\ LET r == add_plugin(cls)
       IN /\ plugins' = r.plugins
          /\ plugin_setup_mode' = r.mode
          /\ app_attrs' = r.app_attrs
          /\ plugin_attrs' = r.plugin_attrs
          /\ lastCall' = [op |-> "add_plugin", cls |-> cls, raised |-> r.raised,
                          pluginsBefore |-> plugins, started |-> lifespan = "up",
                          attrsBefore |-> app_attrs,
                          pattrsBefore |-> plugin_attrs,
                          booted |-> booted,
                          constructed |-> r.constructed,
                          setup_called |-> r.setup_called,
                          setup_calls |-> r.setup_calls,
                          added |-> IF r.raised = None THEN Append(Added, cls)
                                    ELSE Added,
                          count |-> PluginOpCount + 1]
    /\ UNCHANGED <<booted, lifespan, hookLog, lastEmit, config, regVars, clientLog, reqs>>

\* the names application code tries to graft onto the app
AttrNames == {"formatter", "callback"}

\* app.register_plugin_attribute(name, value, override=...) called by
\* application code, that is, while no add_plugin call is executing a setup
RegisterPluginAttribute(name, override) ==
    /\ PluginOpCount < MaxPluginOps
    /\ LET r == register_plugin_attribute(booted, plugin_setup_mode, app_attrs,
                                          plugin_attrs, name, "value", override)
       IN /\ app_attrs' = r.app_attrs
          /\ plugin_attrs' = r.plugin_attrs
          /\ lastCall' = [op |-> "register_plugin_attribute", name |-> name,
                          override |-> override, raised |-> r.raised,
                          pluginsBefore |-> plugins, started |-> lifespan = "up",
                          attrsBefore |-> app_attrs,
                          pattrsBefore |-> plugin_attrs,
                          booted |-> booted,
                          constructed |-> FALSE, setup_called |-> FALSE,
                          setup_calls |-> <<>>, added |-> Added,
                          count |-> PluginOpCount + 1]
    /\ UNCHANGED <<booted, plugin_setup_mode, plugins, lifespan, hookLog, lastEmit,
                   config, regVars, clientLog, reqs>>

\* _on_startup() that emits startup first and sets the started flag afterwards
StartupEmission_boots_late == emit(NewEmission(NewContext), plugins, "startup", 1)

\* Slackle._on_startup, lines 158-159: the started flag is set, then startup
\* is emitted to the plugins, whose hooks are given the app as it then is
StartupEmission ==
    emit([NewEmission(NewContext) EXCEPT !.app.booted = TRUE], plugins, "startup", 1)

\* Slackle._on_startup, run once by the server before it accepts requests
Startup ==
    /\ lifespan = "init"
    /\ booted' = TRUE
    /\ LET em == StartupEmission
       IN /\ hookLog' = hookLog \o em.calls
          /\ lastEmit' = [event |-> "startup", plugins |-> plugins, calls |-> em.calls,
                          raised |-> em.raised, grafts |-> em.grafts]
          /\ plugins' = PluginsAfterEmit(plugins, "startup", em)
          /\ lifespan' = IF em.raised = None THEN "up" ELSE "failed"
          /\ app_attrs' = em.app.app_attrs
          /\ plugin_attrs' = em.app.plugin_attrs
    /\ UNCHANGED <<plugin_setup_mode, lastCall, config, regVars, clientLog, reqs>>

\* Slackle._on_shutdown, run once when the server stops: shutdown is emitted
\* and the started flag is cleared afterwards, unless the emission raised
Shutdown ==
    /\ lifespan = "up"
    /\ \A i \in DOMAIN reqs : reqs[i].pc \in {"idle", "done"}
    /\ LET em == emit(NewEmission(NewContext), plugins, "shutdown", 1)
       IN /\ hookLog' = hookLog \o em.calls
          /\ lastEmit' = [event |-> "shutdown", plugins |-> plugins, calls |-> em.calls,
                          raised |-> em.raised, grafts |-> em.grafts]
          /\ plugins' = PluginsAfterEmit(plugins, "shutdown", em)
          /\ booted' = IF em.raised = None THEN FALSE ELSE booted
          /\ app_attrs' = em.app.app_attrs
          /\ plugin_attrs' = em.app.plugin_attrs
    /\ lifespan' = "down"
    /\ UNCHANGED <<plugin_setup_mode, lastCall, config, regVars, clientLog, reqs>>

(***************************************************************************)
(* Payloads                                                                *)
(***************************************************************************)

\* Optional[SlackEvent]: the event, or no event at all
NoEvent == [present |-> FALSE]
Event(type, user, channel, bot_id) ==
    [present |-> TRUE, type |-> type, user |-> user, channel |-> channel,
     bot_id |-> bot_id]

\* Optional[List[Dict]]: the list of action dicts, or no list
NoActions == [present |-> FALSE]
Actions(items) == [present |-> TRUE, items |-> items]

\* A request body as Slack posts it.  valid: token and type are there, so it
\* parses; text is a field the schema does not declare.
Body(ev, cmd, acts, text) ==
    [valid |-> TRUE, event |-> ev, command |-> cmd, actions |-> acts,
     text |-> text]
InvalidBody == [valid |-> FALSE]

\* SlackPayload: the declared fields of the body; unknown fields are dropped
SlackPayload(body) ==
    [event |-> body.event, command |-> body.command, actions |-> body.actions]

\* bool(x) of an Optional[str]
Truthy(x) == x # None /\ x # ""

\* the handlers applications register, by their declared parameter names
HandlerDefs ==
    [h1 |-> <<"slack", "user_id", "channel_id">>,
     h2 |-> <<"channel_id", "user_id", "slack">>,
     h3 |-> <<"slack", "text", "user_id", "channel_id">>,
     h4 |-> <<"context", "payload", "app">>,
     h5 |-> <<>>,
     h6 |-> <<"command", "request", "response">>,
     h7 |-> <<"event_type", "event">>,
     h8 |-> <<"action", "slack">>]

\* inspect.signature(handler).parameters, as the set of names
Parameters(handler) == {HandlerDefs[handler][i] : i \in 1..Len(HandlerDefs[handler])}

(***************************************************************************)
(* SlackPayloadHandler                                                     *)
(***************************************************************************)

\* _register_routes: the handle_type each route's handler is created with
RouteType ==
    [events |-> "events", command |-> "command", interactivity |-> "interactivity"]

Routes == DOMAIN RouteType

\* SlackPayloadHandler._extract_handle_name: the name, or the exception
_extract_handle_name(handle_type, payload) ==
    CASE handle_type = "events" ->
            IF payload.event.present
            THEN [raised |-> None, name |-> payload.event.type]
            ELSE [raised |-> "AttributeError", name |-> None]
      [] handle_type = "command" ->
            [raised |-> None, name |-> payload.command]
      [] handle_type = "action" ->
            IF ~payload.actions.present THEN [raised |-> "TypeError", name |-> None]
            ELSE IF payload.actions.items = <<>>
            THEN [raised |-> "IndexError", name |-> None]
            ELSE [raised |-> "AttributeError", name |-> None]
      [] OTHER -> [raised |-> "ValueError", name |-> None]

\* _handle, lines 109-125: the candidate keyword arguments, or the exception
available_params(handle_type, payload, i) ==
    LET base == [app |-> "app", payload |-> payload, slack |-> "slack",
                 request |-> [request |-> i], response |-> [response |-> i],
                 context |-> [context |-> i]]
    IN CASE handle_type = "events" ->
              IF payload.event.present
              THEN [raised |-> None,
                    params |-> [k \in DOMAIN base \cup
                                      {"event", "event_type", "user_id", "channel_id"} |->
                                 CASE k = "event" -> payload.event
                                   [] k = "event_type" -> payload.event.type
                                   [] k = "user_id" -> payload.event.user
                                   [] k = "channel_id" -> payload.event.channel
                                   [] OTHER -> base[k]]]
              ELSE [raised |-> "AttributeError", params |-> base]
         [] handle_type = "command" ->
              [raised |-> None,
               params |-> [k \in DOMAIN base \cup {"command"} |->
                            IF k = "command" THEN payload.command ELSE base[k]]]
         [] handle_type = "action" ->
              IF payload.actions.present /\ payload.actions.items # <<>>
              THEN [raised |-> None,
                    params |-> [k \in DOMAIN base \cup {"action"} |->
                                 IF k = "action" THEN payload.actions.items[1]
                                 ELSE base[k]]]
              ELSE [raised |-> IF payload.actions.present THEN "IndexError"
                               ELSE "TypeError",
                    params |-> base]
         [] OTHER -> [raised |-> None, params |-> base]

\* line 126 without its filter: every candidate is passed
FilterKwargs_passes_all(available, params) == available

\* _handle, line 126: the candidates the handler declares
FilterKwargs(available, params) ==
    [k \in DOMAIN available \cap params |-> available[k]]

\* what _pre_handle leaves: the hook calls made, the context, the exception
\* raised (or None) and whether slack.pre_handle was emitted
PreResult(em, emitted) ==
    [calls |-> em.calls, context |-> em.context, raised |-> em.raised,
     emitted |-> emitted]

\* line 40 reading the retry switch where it should read the bot switch
BotFilter_wrong_switch(payload) ==
    Truthy(payload.event.bot_id) /\ config.ignore_retry_events

\* _pre_handle, line 40: payload.event.bot_id and app.config.ignore_bot_events
BotFilter(payload) == Truthy(payload.event.bot_id) /\ config.ignore_bot_events

\* _pre_handle, line 44: the X-Slack-Retry-Num header and ignore_retry_events
RetryFilter(retry) == Truthy(retry) /\ config.ignore_retry_events

\* _pre_handle, lines 48-50: an event of the app's own user
OwnUserFilter(handle_type, payload) ==
    handle_type = "events" /\ payload.event.user = config.app_user_id

\* _pre_handle() that returns after its filters without emitting
\* slack.pre_handle
_pre_handle_without_hooks(handle_type, payload, retry, context) ==
    IF ~payload.event.present
    THEN PreResult([NewEmission(context) EXCEPT !.raised = "AttributeError"], FALSE)
    ELSE IF BotFilter(payload)
    THEN PreResult(NewEmission(skip(context, "Ignoring bot events")), FALSE)
    ELSE IF RetryFilter(retry)
    THEN PreResult(NewEmission(skip(context, "Ignoring retry events")), FALSE)
    ELSE IF OwnUserFilter(handle_type, payload)
    THEN PreResult(NewEmission(skip(context, None)), FALSE)
    ELSE PreResult(NewEmission(context), FALSE)

\* _pre_handle() that tests the retry header before the bot id
_pre_handle_retry_first(handle_type, payload, retry, context) ==
    IF RetryFilter(retry)
    THEN PreResult(NewEmission(skip(context, "Ignoring retry events")), FALSE)
    ELSE IF ~payload.event.present
    THEN PreResult([NewEmission(context) EXCEPT !.raised = "AttributeError"], FALSE)
    ELSE IF BotFilter(payload)
    THEN PreResult(NewEmission(skip(context, "Ignoring bot events")), FALSE)
    ELSE IF OwnUserFilter(handle_type, payload)
    THEN PreResult(NewEmission(skip(context, None)), FALSE)
    ELSE PreResult(emit(NewEmission(context), plugins, "slack.pre_handle", 1), TRUE)

\* _pre_handle: the three filters, then the slack.pre_handle emission;
\* reading payload.event.bot_id raises when the payload has no event
_pre_handle(handle_type, payload, retry, context) ==
    IF ~payload.event.present
    THEN PreResult([NewEmission(context) EXCEPT !.raised = "AttributeError"], FALSE)
    ELSE IF BotFilter(payload)
    THEN PreResult(NewEmission(skip(context, "Ignoring bot events")), FALSE)
    ELSE IF RetryFilter(retry)
    THEN PreResult(NewEmission(skip(context, "Ignoring retry events")), FALSE)
    ELSE IF OwnUserFilter(handle_type, payload)
    THEN PreResult(NewEmission(skip(context, None)), FALSE)
    ELSE PreResult(emit(NewEmission(context), plugins, "slack.pre_handle", 1), TRUE)

\* the fields of a request that no dispatch has touched yet
FreshDispatch ==
    [handler |-> None, kwargs |-> EmptyDict, context |-> NewContext,
     calls |-> <<>>, error |-> None]

\* a request as its route handler leaves it: the response sent (status 0
\* while none is), the exception the route raised, the arguments of the
\* background task and the trace of what has happened to it
RouteResult(route, body, retry, pc, status, raised, name, trace) ==
    [pc |-> pc, route |-> route, body |-> body, retry |-> retry,
     payload |-> IF body.valid THEN SlackPayload(body)
                 ELSE [event |-> NoEvent, command |-> None, actions |-> NoActions],
     status |-> status, content |-> [ok |-> status = 200], raised |-> raised,
     handle_type |-> RouteType[route], handle_name |-> name,
     trace |-> trace] @@ FreshDispatch

\* a route handler that awaits _handle itself: the response is held back
\* until the dispatch has run
payload_handler_awaits(route, body, retry) ==
    IF ~body.valid
    THEN RouteResult(route, body, retry, "done", 422, None, None, <<>>)
    ELSE LET x == _extract_handle_name(RouteType[route], SlackPayload(body))
         IN IF x.raised # None
            THEN RouteResult(route, body, retry, "done", 500, x.raised, None, <<>>)
            ELSE RouteResult(route, body, retry, "queued", 0, None, x.name, <<>>)

\* the route handler returned by _create_handler(handle_type, ...): a body
\* that does not parse is answered 422 by the framework; else the name is
\* extracted (an exception there is answered 500), _handle is added as a
\* background task and the acknowledgement is returned; the server runs the
\* task after the response
payload_handler(route, body, retry) ==
    IF ~body.valid
    THEN RouteResult(route, body, retry, "done", 422, None, None, <<>>)
    ELSE LET x == _extract_handle_name(RouteType[route], SlackPayload(body))
         IN IF x.raised # None
            THEN RouteResult(route, body, retry, "done", 500, x.raised, None, <<>>)
            ELSE RouteResult(route, body, retry, "queued", 200, None, x.name, <<"ack">>)

\* await handler(**kwargs) binds only when every declared parameter is given
Binds(handler, kwargs) == Parameters(handler) \subseteq DOMAIN kwargs

\* an except block that puts the dispatch back in the queue after the error
\* hook instead of raising
AfterErrorHook_retries(req, e) ==
    LET em == emit(NewEmission(req.context), plugins, "slack.error", 1)
    IN [req EXCEPT !.pc = "queued",
                   !.calls = @ \o em.calls,
                   !.trace = @ \o <<"slack.error">>]

\* the exception that leaves "except Exception as e: emit(slack.error); raise"
AfterErrorHook(req, e) ==
    LET em == emit(NewEmission(req.context), plugins, "slack.error", 1)
    IN [req EXCEPT !.pc = "done",
                   !.context = em.context,
                   !.calls = @ \o em.calls,
                   !.trace = @ \o <<"slack.error">>,
                   !.error = IF em.raised # None THEN em.raised ELSE e]

\* the absent branch looking the key up with registry[key], which raises
_handle_absent_raises(req) == [req EXCEPT !.pc = "done", !.error = "KeyError"]

\* _handle, lines 140-141: no handler, so slack.unhandled is emitted
_handle_absent(req) ==
    LET em == emit(NewEmission(NewContext), plugins, "slack.unhandled", 1)
    IN [req EXCEPT !.pc = "done", !.context = em.context,
                   !.calls = em.calls,
                   !.trace = @ \o <<"slack.unhandled">>,
                   !.error = em.raised]

\* a context kept on the handler object and handed to every dispatch: one
\* that another request has marked skipped stays skipped
DispatchContext_shared(i) ==
    IF \E j \in DOMAIN reqs : j # i /\ reqs[j].pc # "idle" /\ reqs[j].context.is_skipped
    THEN skip(NewContext, "other")
    ELSE NewContext

\* _handle, line 106: context = SlackleContext(), a new object in every call
DispatchContext(i) == NewContext

\* SlackPayloadHandler._handle up to the point where the handler runs
_handle(req, i) ==
    LET handler == get(regs["app"], req.handle_type \o ":" \o ToStr(req.handle_name))
    IN IF handler = None
       THEN _handle_absent(req)
       ELSE LET av == available_params(req.handle_type, req.payload, i)
                kwargs == FilterKwargs(av.params, Parameters(handler))
                pre == _pre_handle(req.handle_type, req.payload, req.retry,
                                   DispatchContext(i))
                r1 == [req EXCEPT !.handler = handler, !.kwargs = kwargs,
                                  !.context = pre.context, !.calls = pre.calls,
                                  !.trace = @ \o <<"pre_handle">> \o
                                       (IF pre.emitted THEN <<"slack.pre_handle">>
                                        ELSE <<>>)]
            IN IF av.raised # None
               THEN [req EXCEPT !.pc = "done", !.handler = handler,
                                !.error = av.raised]
               ELSE IF pre.raised # None
               THEN [r1 EXCEPT !.pc = "done", !.error = pre.raised]
               ELSE IF pre.context.is_skipped
               THEN [r1 EXCEPT !.pc = "done"]
               ELSE IF ~Binds(handler, kwargs)
               THEN AfterErrorHook([r1 EXCEPT !.trace = @ \o <<"call_failed">>],
                                   "TypeError")
               ELSE [r1 EXCEPT !.pc = "running", !.trace = @ \o <<"handler">>]

\* what a running handler may do: return, raise, or (given the context) ask
\* for a skip and return
Outcomes(req) ==
    {"return", "raise"} \cup (IF "context" \in DOMAIN req.kwargs THEN {"skip"} ELSE {})

\* _handle() without the test on line 137: slack.post_handle is emitted
\* whenever the handler returns
_handle_end_always_posts(req, outcome) ==
    IF outcome = "raise"
    THEN AfterErrorHook([req EXCEPT !.trace = @ \o <<"raised">>], "HandlerError")
    ELSE LET ctx == IF outcome = "skip" THEN skip(req.context, "handler")
                    ELSE req.context
             em == emit(NewEmission(ctx), plugins, "slack.post_handle", 1)
         IN [req EXCEPT !.pc = "done", !.context = em.context,
                        !.calls = @ \o em.calls,
                        !.trace = @ \o <<"returned", "slack.post_handle">>,
                        !.error = em.raised]

\* _handle() with the slack.post_handle emission inside the try block: a
\* raising post hook is reported through slack.error
_handle_end_guards_post(req, outcome) ==
    CASE outcome = "raise" ->
            AfterErrorHook([req EXCEPT !.trace = @ \o <<"raised">>], "HandlerError")
      [] outcome = "skip" ->
            [req EXCEPT !.pc = "done", !.context = skip(@, "handler"),
                        !.trace = @ \o <<"returned">>]
      [] OTHER ->
            IF req.context.is_skipped
            THEN [req EXCEPT !.pc = "done", !.trace = @ \o <<"returned">>]
            ELSE LET em == emit(NewEmission(req.context), plugins, "slack.post_handle", 1)
                     r1 == [req EXCEPT !.context = em.context,
                                       !.calls = @ \o em.calls,
                                       !.trace = @ \o <<"returned", "slack.post_handle">>]
                 IN IF em.raised # None THEN AfterErrorHook(r1, em.raised)
                    ELSE [r1 EXCEPT !.pc = "done"]

\* SlackPayloadHandler._handle from the handler's end on
_handle_end(req, outcome) ==
    CASE outcome = "raise" ->
            AfterErrorHook([req EXCEPT !.trace = @ \o <<"raised">>], "HandlerError")
      [] outcome = "skip" ->
            [req EXCEPT !.pc = "done", !.context = skip(@, "handler"),
                        !.trace = @ \o <<"returned">>]
      [] OTHER ->
            IF req.context.is_skipped
            THEN [req EXCEPT !.pc = "done", !.trace = @ \o <<"returned">>]
            ELSE LET em == emit(NewEmission(req.context), plugins, "slack.post_handle", 1)
                 IN [req EXCEPT !.pc = "done", !.context = em.context,
                                !.calls = @ \o em.calls,
                                !.trace = @ \o <<"returned", "slack.post_handle">>,
                                !.error = em.raised]

(***************************************************************************)
(* SlackClient                                                             *)
(***************************************************************************)

\* what the AsyncWebClient call behind an operation does: answer, or fail
\* with the SDK's remote-API error
ApiOutcomes == {"ok", "SlackApiError"}

\* the messages handlers send: a str, a SlackMarkdown, a SlackBlock or a
\* SlackResponse
Messages ==
    {[kind |-> "str", text |-> "hi"],
     [kind |-> "str", text |-> ""],
     [kind |-> "markdown", text |-> "*hi*"],
     [kind |-> "block", blocks |-> <<"section">>],
     [kind |-> "response", channel |-> "C1", text |-> "hi", blocks |-> None]}

Channels == {None, "C1"}
UserIds == {"U1", "U2"}

\* SlackClient._normalize_response
_normalize_response(message, channel) ==
    IF message.kind = "response"
    THEN [channel |-> message.channel, text |-> message.text, blocks |-> message.blocks]
    ELSE [channel |-> channel,
          text |-> IF message.kind \in {"markdown", "str"} THEN message.text ELSE None,
          blocks |-> IF message.kind = "block" THEN message.blocks ELSE None]

\* bool(x) of an Optional list
TruthyList(x) == x # None /\ x # <<>>

\* SlackClient.send_message: what it raises (or None) and what it returns
send_message(message, channel, api) ==
    LET response == _normalize_response(message, channel)
    IN IF ~Truthy(channel)
       THEN [raised |-> "ValueError", result |-> None, posted |-> FALSE]
       ELSE IF ~Truthy(response.text) /\ ~TruthyList(response.blocks)
       THEN [raised |-> "ValueError", result |-> None, posted |-> FALSE]
       ELSE IF api = "SlackApiError"
       THEN [raised |-> None, result |-> None, posted |-> FALSE]
       ELSE [raised |-> None,
             result |-> [channel |-> channel,
                         text |-> IF Truthy(response.text) THEN response.text
                                  ELSE "str(blocks)"],
             posted |-> TRUE]

\* SlackClient.get_user_info
get_user_info(user_id, api) ==
    IF api = "SlackApiError"
    THEN [raised |-> "SlackApiError", result |-> None, posted |-> FALSE]
    ELSE [raised |-> None, result |-> [id |-> user_id], posted |-> FALSE]

\* SlackClient.get_channel_info
get_channel_info(channel_id, api) ==
    IF api = "SlackApiError"
    THEN [raised |-> "SlackApiError", result |-> None, posted |-> FALSE]
    ELSE [raised |-> None, result |-> [id |-> channel_id], posted |-> FALSE]

\* a handler awaits one client operation
ClientCall(op, arg, api, r) ==
    /\ Len(clientLog) < MaxClientOps
    /\ clientLog' = Append(clientLog, [op |-> op, arg |-> arg, api |-> api,
                                        raised |-> r.raised, result |-> r.result,
                                        posted |-> r.posted])
    /\ UNCHANGED <<regVars, appVars, reqs>>

SendMessage ==
    \E message \in Messages, channel \in Channels, api \in ApiOutcomes :
        ClientCall("send_message", [message |-> message, channel |-> channel], api,
                   send_message(message, channel, api))

GetUserInfo ==
    \E user_id \in UserIds, api \in ApiOutcomes :
        ClientCall("get_user_info", [id |-> user_id], api, get_user_info(user_id, api))

GetChannelInfo ==
    \E channel_id \in Channels \ {None}, api \in ApiOutcomes :
        ClientCall("get_channel_info", [id |-> channel_id], api,
                   get_channel_info(channel_id, api))

ClientNext == SendMessage \/ GetUserInfo \/ GetChannelInfo

(***************************************************************************)
(* Registry operations as actions                                          *)
(***************************************************************************)

NoOp == [op |-> "none"]

RegInit ==
    /\ regs = [r \in RegIds |-> NewRegistry]
    /\ merged = NewRegistry
    /\ regLog = <<>>
    /\ lastReg = NoOp

\* the number of registry operations performed so far
RegOpCount == IF lastReg.op = "none" THEN 0 ELSE lastReg.count

RegOpsLeft == RegOpCount < MaxRegOps

\* @r.event(n) / @r.command(n) / @r.action(n) applied to handler h
DoRegister(r, c, n, h) ==
    /\ regs' = [regs EXCEPT ![r] = Register(@, c, n, h)]
    /\ regLog' = Append(regLog, [op |-> "register", reg |-> r, c |-> c, n |-> n, h |-> h])
    /\ lastReg' = [op |-> "register", reg |-> r, c |-> c, n |-> n, h |-> h,
                   before |-> regs, count |-> RegOpCount + 1]
    /\ UNCHANGED <<merged, appVars, clientLog, reqs>>

\* r.update_from(o); SlackPayloadHandler.include_callback is update_from on "app"
DoUpdateFrom(r, o) ==
    /\ regs' = [regs EXCEPT ![r] = update_from(@, regs[o])]
    /\ regLog' = Append(regLog, [op |-> "update_from", reg |-> r, other |-> o])
    /\ lastReg' = [op |-> "update_from", reg |-> r, other |-> o, before |-> regs,
                   count |-> RegOpCount + 1]
    /\ UNCHANGED <<merged, appVars, clientLog, reqs>>

\* SlackCallbackRegistry.merge(rs[1], ..., rs[n])
DoMerge(rs) ==
    /\ merged' = merge([i \in 1..Len(rs) |-> regs[rs[i]]])
    /\ lastReg' = [op |-> "merge", srcs |-> rs, before |-> regs,
                   count |-> RegOpCount + 1]
    /\ UNCHANGED <<regs, regLog, appVars, clientLog, reqs>>

RegisterStep ==
    /\ RegOpsLeft
    /\ \E r \in RegIds, c \in Categories, n \in Names, h \in Handlers : DoRegister(r, c, n, h)

UpdateFromStep ==
    /\ RegOpsLeft
    /\ \E r \in RegIds, o \in RegIds : DoUpdateFrom(r, o)

MergeStep ==
    /\ RegOpsLeft
    /\ \E k \in 0..Cardinality(RegIds) : \E rs \in [1..k -> RegIds] : DoMerge(rs)

RegNext == RegisterStep \/ UpdateFromStep \/ MergeStep

\* request slots
Slots == {1, 2}
IdleRequest == [pc |-> "idle"]

(***************************************************************************)
(* Requests                                                                *)
(***************************************************************************)

\* a POST on a route arrives and the route handler answers it; during is
\* history: the slots whose handler was running at that moment.  A slot
\* takes one request: a finished slot taking another would reach no state
\* that a fresh slot does not.
Receive(i, route, body, retry) ==
    /\ lifespan = "up"
    /\ reqs[i].pc = "idle"
    /\ reqs' = [reqs EXCEPT ![i] = payload_handler(route, body, retry) @@
                     [during |-> {j \in Slots : reqs[j].pc = "running"}]]
    /\ UNCHANGED <<regVars, appVars, clientLog>>

\* the server starts the background task of an answered request
DispatchStart(i) ==
    /\ reqs[i].pc = "queued"
    /\ reqs' = [reqs EXCEPT ![i] = _handle(@, i)]
    /\ UNCHANGED <<regVars, appVars, clientLog>>

\* a running handler finishes
HandlerFinish(i, outcome) ==
    /\ reqs[i].pc = "running"
    /\ outcome \in Outcomes(reqs[i])
    /\ reqs' = [reqs EXCEPT ![i] = _handle_end(@, outcome)]
    /\ UNCHANGED <<regVars, appVars, clientLog>>

\* Registries built and combined before any app serves them.
SpecRegistryInit ==
    /\ RegInit
    /\ AppInit
    /\ config = DefaultConfig
    /\ reqs = [i \in Slots |-> IdleRequest]

(***************************************************************************)
(* Specifications                                                          *)
(***************************************************************************)

SpecRegistry == SpecRegistryInit /\ [][RegNext]_vars

\* Plugin registration around the lifespan of one app.
SpecPluginInit ==
    /\ RegInit
    /\ AppInit
    /\ config = DefaultConfig
    /\ reqs = [i \in Slots |-> IdleRequest]

AddPluginStep == \E cls \in PluginClasses : AddPlugin(cls)

RegisterAttributeStep ==
    \E name \in AttrNames, override \in BOOLEAN : RegisterPluginAttribute(name, override)

PluginNext == AddPluginStep \/ RegisterAttributeStep \/ Startup \/ Shutdown

SpecPlugin == SpecPluginInit /\ [][PluginNext]_vars

\* The client operations handlers call, against an API that may fail.
SpecClient == SpecPluginInit /\ [][ClientNext]_vars

\* the registration statements of an application module: handler h under the
\* name each category's payloads carry, or no registration at all
Script(h) ==
    IF h = None THEN <<>>
    ELSE << [op |-> "register", reg |-> "app", c |-> "events", n |-> "message", h |-> h],
            [op |-> "register", reg |-> "app", c |-> "command", n |-> "/hello", h |-> h],
            [op |-> "register", reg |-> "app", c |-> "interactivity", n |-> "btn", h |-> h] >>

\* the app's registry after the first k statements of a script
RECURSIVE RunScript(_, _)
RunScript(script, k) ==
    IF k = 0 THEN NewRegistry
    ELSE Register(RunScript(script, k - 1), script[k].c, script[k].n, script[k].h)

\* the state of a served app whose module ran script and added the plugin
\* classes ps, after a startup that raised nothing
Deployed(script, ps) ==
    /\ regs = [r \in RegIds |-> IF r = "app" THEN RunScript(script, Len(script))
                                 ELSE NewRegistry]
    /\ merged = NewRegistry
    /\ regLog = script
    /\ lastReg = IF script = <<>> THEN NoOp
                 ELSE LET s == script[Len(script)]
                      IN [op |-> "register", reg |-> "app", c |-> s.c, n |-> s.n,
                          h |-> s.h,
                          before |-> [r \in RegIds |->
                                        IF r = "app" THEN RunScript(script, Len(script) - 1)
                                        ELSE NewRegistry],
                          count |-> Len(script)]
    /\ booted = TRUE
    /\ plugin_setup_mode = FALSE
    /\ plugins = [k \in 1..Len(ps) |-> NewPlugin(ps[k], FALSE)]
    /\ app_attrs = BuiltinAttrs
    /\ plugin_attrs = EmptyDict
    /\ lifespan = "up"
    /\ hookLog = emit(NewEmission(NewContext), plugins, "startup", 1).calls
    /\ lastCall = IF ps = <<>> THEN [op |-> "none"]
                  ELSE [op |-> "add_plugin", cls |-> ps[Len(ps)], raised |-> None,
                        pluginsBefore |-> SubSeq(plugins, 1, Len(ps) - 1),
                        started |-> FALSE, attrsBefore |-> BuiltinAttrs,
                        pattrsBefore |-> EmptyDict, booted |-> FALSE,
                        constructed |-> TRUE, setup_called |-> TRUE,
                        setup_calls |-> <<>>, added |-> ps,
                        count |-> Len(ps)]
    /\ lastEmit = [event |-> "startup", plugins |-> plugins, calls |-> hookLog,
                   raised |-> None, grafts |-> <<>>]
    /\ clientLog = <<>>
    /\ reqs = [i \in Slots |-> IdleRequest]

\* the request bodies posted to the routes
EventBodies ==
    {Body(Event(t, u, "C1", b), None, NoActions, None) :
        t \in {"message"}, u \in {None, "U1", "UBOT"}, b \in {None, "", "B1"}}
    \cup {Body(Event("app_mention", "U1", "C1", None), None, NoActions, None)}

Bodies ==
    EventBodies \cup
    {Body(NoEvent, "/hello", NoActions, "world"),
     Body(Event("message", "U1", "C1", None), "/hello", NoActions, "world"),
     Body(NoEvent, None, Actions(<<[action_id |-> "btn"]>>), None),
     Body(NoEvent, None, NoActions, None),
     InvalidBody}

\* the X-Slack-Retry-Num header: absent, or the retry number
RetryHeaders == {None, "1"}

\* One served app, one request at a time, every body on every route.
Init ==
    /\ config \in Configs
    /\ \E h \in DOMAIN HandlerDefs \cup {None}, ps \in {<<>>, <<"Audit">>, <<"Skipper">>, <<"Metrics">>, <<"Reporter">>,
                        <<"Flaky">>, <<"Strict">>, <<"Gate", "Audit">>} :
          Deployed(Script(h), ps)

ReceiveStep == \E route \in Routes, body \in Bodies, retry \in RetryHeaders :
                  Receive(1, route, body, retry)

DispatchStep == DispatchStart(1)

HandlerStep == \E outcome \in {"return", "raise", "skip"} : HandlerFinish(1, outcome)

Next == ReceiveStep \/ DispatchStep \/ HandlerStep

Spec == Init /\ [][Next]_vars

\* One served app with two requests in flight at once.
ServeBodies ==
    {Body(Event("message", "U1", "C1", None), None, NoActions, None),
     Body(Event("message", "UBOT", "C1", None), None, NoActions, None),
     Body(NoEvent, "/hello", NoActions, "world"),
     Body(NoEvent, None, Actions(<<[action_id |-> "btn"]>>), None)}

ServeInit ==
    /\ config \in {DefaultConfig,
                   [ignore_bot_events |-> TRUE, ignore_retry_events |-> TRUE,
                    app_user_id |-> "UBOT"]}
    /\ \E h \in {None, "h4"} : Deployed(Script(h), <<"Audit">>)

ServeReceive == \E i \in Slots, route \in Routes, body \in ServeBodies :
                   Receive(i, route, body, None)

ServeDispatch == \E i \in Slots : DispatchStart(i)

ServeHandler == \E i \in Slots, outcome \in {"return", "raise", "skip"} :
                   HandlerFinish(i, outcome)

ServeNext == ServeReceive \/ ServeDispatch \/ ServeHandler

SpecServe == ServeInit /\ [][ServeNext]_vars

\* @app.on_event(n) / @app.on_command(n) / @app.on_action(n) applied to h by
\* code that runs while the app is serving; late is history
LateRegister(c, n, h) ==
    /\ lifespan = "up"
    /\ "late" \notin DOMAIN lastReg
    /\ regs' = [regs EXCEPT !["app"] = Register(@, c, n, h)]
    /\ regLog' = Append(regLog, [op |-> "register", reg |-> "app", c |-> c, n |-> n,
                                  h |-> h])
    /\ lastReg' = [op |-> "register", reg |-> "app", c |-> c, n |-> n, h |-> h,
                   before |-> regs, count |-> RegOpCount + 1, late |-> TRUE]
    /\ UNCHANGED <<merged, appVars, clientLog, reqs>>

LateRegisterStep ==
    \E c \in Categories, n \in Names, h \in {"h4", "h5"} : LateRegister(c, n, h)

LiveNext == LateRegisterStep \/ ServeReceive \/ ServeDispatch \/ ServeHandler

\* One served app whose code also registers a handler while requests are in
\* flight.
SpecLive == ServeInit /\ [][LiveNext]_vars

(***************************************************************************)
(* Properties                                                              *)
(***************************************************************************)

\* the number of times x occurs in a sequence
Count(seq, x) == Cardinality({k \in 1..Len(seq) : seq[k] = x})
Has(seq, x) == \E k \in 1..Len(seq) : seq[k] = x

\* the requests that have arrived
Arrived == {i \in Slots : reqs[i].pc # "idle"}

\* the requests whose background task has run at least its first part
Dispatched == {i \in Arrived :
                  \/ reqs[i].pc = "running"
                  \/ \E k \in 1..Len(reqs[i].trace) : reqs[i].trace[k] # "ack"
                  \/ reqs[i].error # None
                  \/ reqs[i].handler # None}

\* the composite key of a category and a name
CatKey(c, n) == c \o ":" \o n

\* the view of a registry for a category
View(r, c) ==
    CASE c = "events" -> r.events
      [] c = "command" -> r.commands
      [] c = "interactivity" -> r.actions

\* the keys looked up when "every other key" is checked
ProbeKeys ==
    {CatKey(c, n) : c \in Categories, n \in Names} \cup Names
    \cup {"events:", "action:message", "action:/hello", "commands:/hello"}

Max(S) == CHOOSE x \in S : \A y \in S : y <= x

\* C1: every request whose body parses is answered 200 {"ok": true} on each
\* of the three routes, and no step before the response raises.
C1_EveryParsedRequestAcknowledged ==
    \A i \in Arrived :
        reqs[i].body.valid =>
            /\ reqs[i].status = 200
            /\ reqs[i].content = [ok |-> TRUE]
            /\ reqs[i].raised = None

\* C2: whatever part of a request's dispatch has run (filters, hooks,
\* handler), the acknowledgement was produced before it; a handler still
\* running has not held the response back, and the response does not change
\* while the dispatch goes on.
C2_AckBeforeDispatch ==
    \A i \in Dispatched :
        /\ reqs[i].status = 200
        /\ reqs[i].content = [ok |-> TRUE]
        /\ reqs[i].trace[1] = "ack"
        /\ Count(reqs[i].trace, "ack") = 1

\* C2 witness: a request acknowledged while the handler of another request
\* was running and still is
C2_Witness ==
    \E i \in Slots, j \in Slots :
        /\ i # j
        /\ reqs[i].pc # "idle" /\ reqs[i].status = 200 /\ j \in reqs[i].during
        /\ reqs[j].pc = "running"
        /\ reqs[i].pc = "done" /\ Has(reqs[i].trace, "returned")

\* C3: a dispatch that finds no handler under its key leaves the caller
\* acknowledged with no exception from the route, emits slack.unhandled
\* exactly once, and runs no handler, slack.pre_handle or slack.post_handle.
C3_UnhandledDispatch ==
    \A i \in Arrived :
        (/\ reqs[i].pc = "done"
         /\ reqs[i].trace # <<>>
         /\ ~has(regs["app"], reqs[i].handle_type \o ":" \o ToStr(reqs[i].handle_name)))
        => /\ reqs[i].status = 200
           /\ reqs[i].raised = None
           /\ Count(reqs[i].trace, "slack.unhandled") = 1
           /\ reqs[i].trace = <<"ack", "slack.unhandled">>
           /\ \A k \in 1..Len(reqs[i].calls) : reqs[i].calls[k].event = "slack.unhandled"

C3_Witness ==
    \E i \in Arrived :
        /\ reqs[i].pc = "done"
        /\ reqs[i].handler = None
        /\ reqs[i].trace = <<"ack", "slack.unhandled">>
        /\ reqs[i].calls # <<>>

\* C4: after registering h under category c and name n, get("c:n") and the
\* category view's entry for n are h, and every other key gets what it got
\* before.
C4_RegisteredUnderItsKeyOnly ==
    lastReg.op = "register" =>
        LET r == regs[lastReg.reg]
            b == lastReg.before[lastReg.reg]
            k == CatKey(lastReg.c, lastReg.n)
        IN /\ get(r, k) = lastReg.h
           /\ DictGet(View(r, lastReg.c), lastReg.n) = lastReg.h
           /\ \A k2 \in ProbeKeys \ {k} : get(r, k2) = get(b, k2)

C4_Witness ==
    /\ lastReg.op = "register"
    /\ lastReg.c = "interactivity"
    /\ get(regs[lastReg.reg], CatKey(lastReg.c, lastReg.n)) = lastReg.h
    /\ \E k2 \in ProbeKeys \ {CatKey(lastReg.c, lastReg.n)} :
          get(lastReg.before[lastReg.reg], k2) # None

\* the handler of the most recent registration of (c, n) in registry r
LastRegistered(r, c, n) ==
    LET idx == {k \in 1..Len(regLog) :
                    /\ regLog[k].op = "register" /\ regLog[k].reg = r
                    /\ regLog[k].c = c /\ regLog[k].n = n}
    IN IF idx = {} THEN None ELSE regLog[Max(idx)].h

\* the registries changed by registrations only
OnlyRegistered == {r \in RegIds :
                      \A k \in 1..Len(regLog) :
                          regLog[k].op = "update_from" => regLog[k].reg # r}

\* C5: after any sequence of registrations each key holds the handler of its
\* most recent registration, there is one key per registered (category,
\* name), and registering a key again does not add a key.
C5_LastRegistrationWins ==
    /\ \A r \in OnlyRegistered :
          /\ \A c \in Categories, n \in Names :
                get(regs[r], CatKey(c, n)) = LastRegistered(r, c, n)
          /\ len(regs[r]) =
                Cardinality({cn \in Categories \X Names :
                                LastRegistered(r, cn[1], cn[2]) # None})
    /\ (lastReg.op = "register"
            /\ has(lastReg.before[lastReg.reg], CatKey(lastReg.c, lastReg.n)))
        => len(regs[lastReg.reg]) = len(lastReg.before[lastReg.reg])

C5_Witness ==
    /\ lastReg.op = "register"
    /\ lastReg.reg \in OnlyRegistered
    /\ lastReg.c = "events"
    /\ get(lastReg.before[lastReg.reg], CatKey(lastReg.c, lastReg.n))
          \notin {None, lastReg.h}
    /\ get(regs[lastReg.reg], CatKey(lastReg.c, lastReg.n)) = lastReg.h

\* the keys of the registries a merge or update_from was given
SourceKeys(srcs) == UNION {DOMAIN srcs[k].callbacks : k \in 1..Len(srcs)}

\* a registry holds exactly the union of the sources, each key with the
\* handler of the last source that has it
IsLastWinsUnion(result, srcs) ==
    /\ DOMAIN result.callbacks = SourceKeys(srcs)
    /\ \A k \in SourceKeys(srcs) :
          result.callbacks[k] =
              srcs[Max({j \in 1..Len(srcs) : k \in DOMAIN srcs[j].callbacks})].callbacks[k]

\* C6: merge returns the union of its arguments' keys with the last argument
\* that has a key winning; update_from does the same in place with other
\* winning; the registries passed in are left as they were.
C6_MergeLastWins ==
    /\ lastReg.op = "merge" =>
          /\ IsLastWinsUnion(merged,
                [k \in 1..Len(lastReg.srcs) |-> lastReg.before[lastReg.srcs[k]]])
          /\ regs = lastReg.before
    /\ lastReg.op = "update_from" =>
          /\ IsLastWinsUnion(regs[lastReg.reg],
                <<lastReg.before[lastReg.reg], lastReg.before[lastReg.other]>>)
          /\ regs[lastReg.other] = lastReg.before[lastReg.other]
          /\ \A r \in RegIds \ {lastReg.reg} : regs[r] = lastReg.before[r]

C6_Witness ==
    /\ lastReg.op = "merge"
    /\ Len(lastReg.srcs) = 2
    /\ \E k \in DOMAIN merged.callbacks :
          /\ k \in DOMAIN regs[lastReg.srcs[1]].callbacks
          /\ k \in DOMAIN regs[lastReg.srcs[2]].callbacks
          /\ regs[lastReg.srcs[1]].callbacks[k] # regs[lastReg.srcs[2]].callbacks[k]
          /\ merged.callbacks[k] = regs[lastReg.srcs[2]].callbacks[k]

\* the parameter names a handler of a handle type may be given
CommonNames == {"app", "payload", "slack", "request", "response", "context"}
Vocabulary(handle_type) ==
    CommonNames \cup
    (CASE handle_type = "events" -> {"event", "event_type", "user_id", "channel_id"}
       [] handle_type = "command" -> {"command"}
       [] handle_type = "action" -> {"action"}
       [] OTHER -> {})

\* the value of this request a name stands for
ValueOf(name, i) ==
    CASE name = "app" -> "app"
      [] name = "slack" -> "slack"
      [] name = "payload" -> reqs[i].payload
      [] name = "request" -> [request |-> i]
      [] name = "response" -> [response |-> i]
      [] name = "context" -> [context |-> i]
      [] name = "event" -> reqs[i].payload.event
      [] name = "event_type" -> reqs[i].payload.event.type
      [] name = "user_id" -> reqs[i].payload.event.user
      [] name = "channel_id" -> reqs[i].payload.event.channel
      [] name = "command" -> reqs[i].payload.command
      [] name = "action" -> reqs[i].payload.actions.items[1]

\* the requests whose dispatch got as far as calling the handler
Called == {i \in Arrived : Has(reqs[i].trace, "handler") \/ Has(reqs[i].trace, "call_failed")}

\* C7: a handler whose declared names all belong to the vocabulary of its
\* handle type is called with exactly the declared names, each bound to the
\* value of this request, whatever the order of declaration.
C7_ExactlyDeclaredNames ==
    \A i \in Called :
        Parameters(reqs[i].handler) \subseteq Vocabulary(reqs[i].handle_type) =>
            /\ DOMAIN reqs[i].kwargs = Parameters(reqs[i].handler)
            /\ \A name \in DOMAIN reqs[i].kwargs : reqs[i].kwargs[name] = ValueOf(name, i)
            /\ Has(reqs[i].trace, "handler")

C7_Witness ==
    \E i \in Called :
        /\ reqs[i].handler = "h2"
        /\ HandlerDefs["h2"] # HandlerDefs["h1"]
        /\ Parameters("h2") = Parameters("h1")
        /\ DOMAIN reqs[i].kwargs = {"slack", "user_id", "channel_id"}
        /\ reqs[i].kwargs.user_id = "U1"

\* no built-in filter and no hook asks for a skip of request i
NoSkipApplies(i) ==
    /\ ~(Truthy(reqs[i].retry) /\ config.ignore_retry_events)
    /\ ~(reqs[i].payload.event.present /\ Truthy(reqs[i].payload.event.bot_id)
            /\ config.ignore_bot_events)
    /\ \A k \in 1..Len(plugins) : plugins[k].cls # "Skipper"

\* C8: a command payload whose command has a registered handler, no skip
\* applying, gets that handler invoked exactly once after the
\* acknowledgement, with text, user_id and channel_id supplied when declared.
C8_CommandHandlerInvokedWithText ==
    \A i \in Arrived :
        (/\ reqs[i].route = "command"
         /\ reqs[i].body.valid
         /\ reqs[i].pc \in {"running", "done"}
         /\ reqs[i].body.command # None
         /\ has(regs["app"], CatKey("command", reqs[i].body.command))
         /\ NoSkipApplies(i))
        => /\ reqs[i].status = 200
           /\ reqs[i].trace # <<>> /\ reqs[i].trace[1] = "ack"
           /\ Count(reqs[i].trace, "handler") = 1
           /\ "text" \in Parameters(reqs[i].handler) =>
                 /\ "text" \in DOMAIN reqs[i].kwargs
                 /\ reqs[i].kwargs.text = reqs[i].body.text

\* C9: with bot-event ignoring enabled a dispatch whose event carries a
\* bot_id never calls the handler and never emits slack.post_handle; with it
\* disabled no dispatch is skipped for being a bot event.
C9_BotEventsSkipped ==
    \A i \in Arrived :
        /\ (/\ reqs[i].payload.event.present
            /\ Truthy(reqs[i].payload.event.bot_id)
            /\ config.ignore_bot_events)
           => /\ reqs[i].pc # "running"
              /\ ~Has(reqs[i].trace, "handler")
              /\ ~Has(reqs[i].trace, "call_failed")
              /\ ~Has(reqs[i].trace, "slack.post_handle")
              /\ \A k \in 1..Len(reqs[i].calls) :
                    reqs[i].calls[k].event # "slack.post_handle"
        /\ ~config.ignore_bot_events => reqs[i].context.reason # "Ignoring bot events"

C9_Witness ==
    \E i \in Arrived :
        /\ reqs[i].pc = "done"
        /\ reqs[i].route = "events"
        /\ reqs[i].handler # None
        /\ reqs[i].payload.event.bot_id = "B1"
        /\ config.ignore_bot_events
        /\ reqs[i].context = [is_skipped |-> TRUE, reason |-> "Ignoring bot events"]
        /\ reqs[i].trace = <<"ack", "pre_handle">>

\* C10: add_plugin called after startup has completed raises and leaves the
\* plugin list as it was, whatever the plugin class.
C10_AddPluginAfterStartupRejected ==
    (lastCall.op = "add_plugin" /\ lastCall.started) =>
        /\ lastCall.raised # None
        /\ plugins = lastCall.pluginsBefore

\* C11: add_plugin of a class whose earlier add_plugin succeeded raises
\* ValueError and leaves the plugin list as it was, so the list never holds
\* two instances of one class.
C11_DuplicatePluginRejected ==
    /\ (/\ lastCall.op = "add_plugin"
        /\ \E k \in 1..Len(lastCall.pluginsBefore) :
               lastCall.pluginsBefore[k].cls = lastCall.cls)
       => /\ lastCall.raised = "ValueError"
          /\ plugins = lastCall.pluginsBefore
    /\ \A j \in 1..Len(plugins), k \in 1..Len(plugins) :
          j # k => plugins[j].cls # plugins[k].cls

\* C12: add_plugin of anything that is not a class deriving from
\* SlacklePlugin (an unrelated class, an instance) raises, constructs
\* nothing, calls no setup and leaves the plugin list and the app's
\* attributes as they were.
C12_NonPluginRejected ==
    (/\ lastCall.op = "add_plugin"
     /\ ~(PluginDefs[lastCall.cls].isclass /\ PluginDefs[lastCall.cls].subclass))
    => /\ lastCall.raised # None
       /\ ~lastCall.constructed
       /\ ~lastCall.setup_called
       /\ plugins = lastCall.pluginsBefore
       /\ app_attrs = lastCall.attrsBefore

C12_Witness ==
    /\ lastCall.op = "add_plugin"
    /\ lastCall.cls = "NotAPlugin"
    /\ lastCall.raised = "TypeError"
    /\ Len(lastCall.pluginsBefore) = 1
    /\ plugins = lastCall.pluginsBefore

\* C13: register_plugin_attribute / register_plugin_method called while no
\* add_plugin call is executing a setup raise RuntimeError and leave the
\* app's attributes unchanged, also after an add_plugin call that raised.
C13_GraftingOnlyDuringSetup ==
    lastCall.op = "register_plugin_attribute" =>
        /\ lastCall.raised = "RuntimeError"
        /\ app_attrs = lastCall.attrsBefore

\* C14: when the registered handler raises, slack.error is emitted exactly
\* once and the exception that leaves the dispatch is the handler's own.
C14_HandlerExceptionPropagates ==
    \A i \in Arrived :
        Has(reqs[i].trace, "raised") =>
            /\ reqs[i].pc = "done"
            /\ Count(reqs[i].trace, "slack.error") = 1
            /\ reqs[i].error = "HandlerError"

\* C17: send_message, get_user_info and get_channel_info return None and
\* raise nothing when the Slack API call fails with the remote-API error.
C17_ApiErrorsDegradeToNone ==
    \A k \in 1..Len(clientLog) :
        clientLog[k].api = "SlackApiError" =>
            /\ clientLog[k].raised # "SlackApiError"
            /\ clientLog[k].raised = None => clientLog[k].result = None

\* the tagged method of a plugin class behind a hook call
MethodOf(cls, attr) ==
    LET ms == PluginDefs[cls].methods
    IN ms[CHOOSE k \in 1..Len(ms) : ms[k].attr = attr]

\* the attributes of a class tagged for an event, in dir() order, a
\* function reachable under two attribute names counted under the first
TaggedFor(cls, e) ==
    LET all == PluginDefs[cls].methods
        first == {k \in 1..Len(all) :
                     /\ all[k].event = e
                     /\ \A j \in 1..(k - 1) :
                           ~(all[j].event = e /\ all[j].func = all[k].func)}
        ms == [k \in 1..Len(all) |-> IF k \in first THEN <<all[k].attr>> ELSE <<>>]
        cat[k \in 0..Len(all)] == IF k = 0 THEN <<>> ELSE cat[k - 1] \o ms[k]
    IN cat[Len(all)]

\* the attributes called on plugin p in a list of hook calls, in call order
CalledOn(cs, p) ==
    LET mine == SelectSeq(cs, LAMBDA c : c.plugin = p)
    IN [k \in 1..Len(mine) |-> mine[k].attr]

\* C15: an emission in which no hook raises calls, plugin by plugin in the
\* order the plugins were added, exactly the hooks tagged for the emitted
\* name, each once and in the plugin's own order; every plugin of the list
\* is visited and no hook of another name is called.
C15_EmitInPluginOrder ==
    (lastEmit.event # None /\ lastEmit.raised = None) =>
        LET cs == lastEmit.calls
        IN /\ \A k \in 1..Len(cs) : cs[k].event = lastEmit.event /\ cs[k].ran
           /\ \A j \in 1..Len(cs), k \in 1..Len(cs) :
                 j < k => cs[j].plugin <= cs[k].plugin
           /\ \A q \in 1..Len(lastEmit.plugins) :
                 CalledOn(cs, q) = TaggedFor(lastEmit.plugins[q].cls, lastEmit.event)

C15_Witness ==
    /\ lastEmit.event = "startup"
    /\ lastEmit.raised = None
    /\ Len(lastEmit.plugins) = 2
    /\ lastEmit.plugins[1].cls = "Metrics"
    /\ lastEmit.plugins[2].cls = "Audit"
    /\ Len(lastEmit.calls) = 3
    /\ lastEmit.calls[3].plugin = 2

\* whether the hook behind a call raises when called
Raises(c) ==
    LET m == MethodOf(lastEmit.plugins[c.plugin].cls, c.attr)
    IN \/ m.shape = "method"
       \/ m.effect = "raise"
       \/ (m.effect = "graft" /\ \E j \in 1..Len(lastEmit.grafts) :
                                      lastEmit.grafts[j] # None)

\* C16: a hook that raises ends its emission: the exception leaves emit (a
\* startup that raised does not bring the app up) and the raising hook is
\* the last one called, so no later hook of the same plugin and no hook of
\* a later plugin runs.
C16_RaisingHookAbortsEmission ==
    lastEmit.event # None =>
        LET cs == lastEmit.calls
        IN /\ \A k \in 1..Len(cs) :
                 Raises(cs[k]) => (k = Len(cs) /\ lastEmit.raised # None)
           /\ lastEmit.raised # None =>
                 /\ cs # <<>> /\ Raises(cs[Len(cs)])
                 /\ lastEmit.event = "startup" => lifespan = "failed"

C16_Witness ==
    /\ lastEmit.event = "startup"
    /\ lastEmit.raised = "HookError"
    /\ Len(lastEmit.plugins) = 2
    /\ lastEmit.plugins[1].cls = "Fragile"
    /\ lastEmit.plugins[2].cls = "Audit"
    /\ Len(lastEmit.calls) = 1
    /\ lastEmit.calls[1].attr = "a_check"
    /\ lifespan = "failed"

\* the identifier a payload carries for the category of its route
Identifier(i) ==
    LET b == reqs[i].body
    IN CASE reqs[i].route = "events" ->
               IF b.event.present THEN b.event.type ELSE None
         [] reqs[i].route = "command" -> b.command
         [] reqs[i].route = "interactivity" ->
               IF b.actions.present /\ b.actions.items # <<>>
               THEN b.actions.items[1].action_id ELSE None

\* the own-user filter does not apply to request i
NotOwnUser(i) ==
    ~(/\ reqs[i].route = "events" /\ reqs[i].payload.event.present
      /\ reqs[i].payload.event.user = config.app_user_id)

\* C18: a payload of a category arriving on that category's route, its
\* identifier N registered through the category's decorator and no skip
\* applying, is acknowledged and gets the handler registered under (category,
\* N) invoked, and no other.
C18_RegisteredHandlerInvoked ==
    \A i \in Arrived :
        (/\ reqs[i].body.valid
         /\ reqs[i].pc \in {"running", "done"}
         /\ Identifier(i) # None
         /\ has(regs["app"], CatKey(reqs[i].route, Identifier(i)))
         /\ NoSkipApplies(i) /\ NotOwnUser(i))
        => /\ reqs[i].status = 200
           /\ reqs[i].handler = get(regs["app"], CatKey(reqs[i].route, Identifier(i)))
           /\ (Has(reqs[i].trace, "handler") \/ Has(reqs[i].trace, "call_failed"))

\* C19: a dispatch with a registered handler whose request carries the
\* retry header, retry ignoring enabled, never invokes the handler, emits
\* neither slack.pre_handle nor slack.post_handle and ends without raising.
C19_RetriesSkipped ==
    \A i \in Dispatched :
        (/\ reqs[i].handler # None
         /\ Truthy(reqs[i].retry)
         /\ config.ignore_retry_events)
        => /\ reqs[i].pc = "done"
           /\ ~Has(reqs[i].trace, "handler")
           /\ ~Has(reqs[i].trace, "call_failed")
           /\ ~Has(reqs[i].trace, "slack.pre_handle")
           /\ ~Has(reqs[i].trace, "slack.post_handle")
           /\ reqs[i].error = None

\* the dispatches that got to the own-user filter: the bot filter and the
\* retry filter read their inputs and let them pass
ReachedOwnUserFilter ==
    {i \in Dispatched :
        /\ reqs[i].handler # None
        /\ Has(reqs[i].trace, "pre_handle")
        /\ reqs[i].payload.event.present
        /\ ~(Truthy(reqs[i].payload.event.bot_id) /\ config.ignore_bot_events)
        /\ ~(Truthy(reqs[i].retry) /\ config.ignore_retry_events)}

\* the dispatch was ended by the own-user filter: skipped with no reason
\* before any hook or handler
SkippedByOwnUserFilter(i) ==
    /\ reqs[i].pc = "done"
    /\ reqs[i].context = [is_skipped |-> TRUE, reason |-> None]
    /\ reqs[i].trace = <<"ack", "pre_handle">>

\* C20: the own-user filter skips a dispatch exactly when it is an event
\* dispatch whose event carries a user, the app has a bot user id
\* configured, and the two are equal.
C20_OwnUserFilterExact ==
    \A i \in ReachedOwnUserFilter :
        SkippedByOwnUserFilter(i) <=>
            /\ reqs[i].handle_type = "events"
            /\ reqs[i].payload.event.user # None
            /\ config.app_user_id # None
            /\ reqs[i].payload.event.user = config.app_user_id

\* the positions of x in a sequence
Positions(seq, x) == {k \in 1..Len(seq) : seq[k] = x}

\* the number of hook calls a request's emissions made for an event name
HookCalls(i, e) ==
    Cardinality({k \in 1..Len(reqs[i].calls) : reqs[i].calls[k].event = e})

\* the number of hooks the app's plugins have for an event name
HooksOf(e) ==
    LET n[k \in 0..Len(plugins)] ==
            IF k = 0 THEN 0
            ELSE n[k - 1] + Len(HooksFor(plugins[k]._event_hooks, e))
    IN n[Len(plugins)]

\* C21: slack.post_handle is emitted, once, exactly in the dispatches whose
\* handler was invoked and returned without raising with the context not
\* marked skipped; a skip by a filter, a hook or the handler, a handler
\* exception and a missing handler all leave it out.
C21_PostHandleExactlyWhenCompleted ==
    \A i \in Arrived :
        /\ Count(reqs[i].trace, "slack.post_handle") <= 1
        /\ Has(reqs[i].trace, "slack.post_handle") <=>
              /\ reqs[i].pc = "done"
              /\ Has(reqs[i].trace, "handler")
              /\ Has(reqs[i].trace, "returned")
              /\ ~reqs[i].context.is_skipped
        /\ HookCalls(i, "slack.post_handle") =
              IF Has(reqs[i].trace, "slack.post_handle")
              THEN HooksOf("slack.post_handle") ELSE 0

C21_Witness ==
    \E i \in Arrived :
        /\ reqs[i].pc = "done"
        /\ Has(reqs[i].trace, "handler") /\ Has(reqs[i].trace, "returned")
        /\ ~reqs[i].context.is_skipped
        /\ Count(reqs[i].trace, "slack.post_handle") = 1
        /\ HooksOf("slack.post_handle") = 1
        /\ reqs[i].calls[Len(reqs[i].calls)].attr = "on_post"

\* C23: a handler declaring a name outside the vocabulary of its category
\* is still invoked at dispatch, without that argument, with no error and
\* no slack.error emission.
C23_UnknownNamesNeverSupplied ==
    \A i \in Called :
        ~(Parameters(reqs[i].handler) \subseteq Vocabulary(reqs[i].handle_type)) =>
            /\ Has(reqs[i].trace, "handler")
            /\ DOMAIN reqs[i].kwargs \subseteq Vocabulary(reqs[i].handle_type)
            /\ ~Has(reqs[i].trace, "call_failed")
            /\ ~Has(reqs[i].trace, "slack.error")

\* C24: where the handler is invoked, the filters and the slack.pre_handle
\* emission with all its hooks come before the invocation, and
\* slack.post_handle comes only after the handler has returned.
C24_PreBeforeHandlerBeforePost ==
    \A i \in Arrived :
        /\ \A k \in Positions(reqs[i].trace, "handler") :
              /\ \E j \in Positions(reqs[i].trace, "pre_handle") : j < k
              /\ \E j \in Positions(reqs[i].trace, "slack.pre_handle") : j < k
              /\ \A j \in Positions(reqs[i].trace, "slack.pre_handle") : j < k
              /\ HookCalls(i, "slack.pre_handle") = HooksOf("slack.pre_handle")
              /\ reqs[i].pc = "running" => HookCalls(i, "slack.post_handle") = 0
        /\ \A k \in Positions(reqs[i].trace, "slack.post_handle") :
              /\ \E h \in Positions(reqs[i].trace, "handler") :
                    \E r \in Positions(reqs[i].trace, "returned") : h < r /\ r < k
        /\ \A j \in 1..Len(reqs[i].calls), k \in 1..Len(reqs[i].calls) :
              (/\ reqs[i].calls[j].event = "slack.post_handle"
               /\ reqs[i].calls[k].event = "slack.pre_handle") => k < j

C24_Witness ==
    \E i \in Arrived :
        /\ reqs[i].pc = "done"
        /\ reqs[i].trace = <<"ack", "pre_handle", "slack.pre_handle", "handler",
                              "returned", "slack.post_handle">>
        /\ HookCalls(i, "slack.pre_handle") = 1
        /\ HookCalls(i, "slack.post_handle") = 1

\* C30: the handler of a request is invoked at most once, also after it
\* raised or after a skip, and no dispatch has both a handler invocation and
\* a slack.unhandled emission.
C30_HandlerAtMostOnce ==
    \A i \in Arrived :
        /\ Count(reqs[i].trace, "handler") + Count(reqs[i].trace, "call_failed") <= 1
        /\ Count(reqs[i].trace, "raised") <= 1
        /\ ~(/\ (Has(reqs[i].trace, "handler") \/ Has(reqs[i].trace, "call_failed"))
              /\ Has(reqs[i].trace, "slack.unhandled"))
        /\ (reqs[i].pc = "done" /\ Has(reqs[i].trace, "raised")) =>
              reqs[i].trace[Len(reqs[i].trace)] = "slack.error"

C30_Witness ==
    \E i \in Arrived :
        /\ reqs[i].pc = "done"
        /\ reqs[i].error = "HandlerError"
        /\ Count(reqs[i].trace, "handler") = 1
        /\ reqs[i].trace[Len(reqs[i].trace)] = "slack.error"

C25_DocumentedHooksRun ==
    lastEmit.event # None =>
        /\ \A k \in 1..Len(lastEmit.calls) :
              MethodOf(lastEmit.plugins[lastEmit.calls[k].plugin].cls,
                       lastEmit.calls[k].attr).shape = "method"
                  => lastEmit.calls[k].ran
        /\ lastEmit.raised # "TypeError"

\* C28: an add_plugin call that returns has constructed the plugin, called
\* its setup and then appended it at the end of the list, the earlier
\* entries staying where they were; list_plugins is the classes of the
\* calls that returned, in call order; the hook calls made while the setup
\* ran went to the earlier entries only.
C28_AppendedAfterSetup ==
    /\ lastCall.op # "none" => list_plugins = lastCall.added
    /\ (lastCall.op = "add_plugin" /\ lastCall.raised = None) =>
          /\ lastCall.constructed /\ lastCall.setup_called
          /\ Len(plugins) = Len(lastCall.pluginsBefore) + 1
          /\ SubSeq(plugins, 1, Len(lastCall.pluginsBefore)) = lastCall.pluginsBefore
          /\ plugins[Len(plugins)].cls = lastCall.cls
          /\ \A k \in 1..Len(lastCall.setup_calls) :
                lastCall.setup_calls[k].plugin <= Len(lastCall.pluginsBefore)
    /\ (lastCall.op # "none" /\ lastCall.raised # None) =>
          plugins = lastCall.pluginsBefore

C28_Witness ==
    /\ lastCall.op = "add_plugin"
    /\ lastCall.cls = "Announcer"
    /\ lastCall.raised = None
    /\ list_plugins = <<"Audit", "Announcer">>
    /\ PluginDefs["Announcer"].setup.do = "emit"
    /\ HooksFor(plugins[2]._event_hooks, "plugin.added") # <<>>
    /\ lastCall.setup_calls = <<>>

\* the functions of a hook list
Funcs(hooks) == [k \in 1..Len(hooks) |-> hooks[k].func]

\* C29: whatever has been emitted, each plugin's mapping has exactly the
\* event names its class tags a method for, each with the tagged methods in
\* dir() order, none of them twice.
C29_HookMappingFixed ==
    \A k \in 1..Len(plugins) :
        LET d == plugins[k]._event_hooks
            ms == PluginDefs[plugins[k].cls].methods
        IN /\ DOMAIN d = {ms[j].event : j \in 1..Len(ms)}
           /\ \A e \in DOMAIN d :
                 /\ [j \in 1..Len(d[e]) |-> d[e][j].attr] = TaggedFor(plugins[k].cls, e)
                 /\ \A i \in 1..Len(d[e]), j \in 1..Len(d[e]) :
                       i # j => Funcs(d[e])[i] # Funcs(d[e])[j]

C29_Witness ==
    /\ lastEmit.event = "shutdown"
    /\ \E k \in 1..Len(plugins) :
          /\ plugins[k].cls = "Aliased"
          /\ DOMAIN plugins[k]._event_hooks = {"startup"}
          /\ Len(plugins[k]._event_hooks["startup"]) = 1
    /\ Has([k \in 1..Len(hookLog) |-> hookLog[k].attr], "on_boot")

\* C26: a dispatch starts with its skip flag unset, and a skip asked for in
\* one dispatch leaves every other dispatch alone: a dispatch whose own
\* filters and hooks ask for no skip invokes its handler, and one whose
\* handler returned without asking for a skip emits slack.post_handle,
\* whatever the other requests in flight did.
C26_ContextPerDispatch ==
    \A i \in Arrived :
        /\ reqs[i].pc = "queued" => reqs[i].context = NewContext
        /\ (/\ reqs[i].pc \in {"running", "done"}
            /\ reqs[i].handler # None
            /\ reqs[i].payload.event.present
            /\ NoSkipApplies(i) /\ NotOwnUser(i))
           => /\ (Has(reqs[i].trace, "handler") \/ Has(reqs[i].trace, "call_failed"))
              /\ (reqs[i].pc = "running" => ~reqs[i].context.is_skipped)
              /\ (/\ reqs[i].pc = "done" /\ Has(reqs[i].trace, "returned")
                  /\ reqs[i].context.reason # "handler")
                 => Has(reqs[i].trace, "slack.post_handle")

C26_Witness ==
    \E i \in Slots, j \in Slots :
        /\ i # j
        /\ reqs[j].pc = "done"
        /\ reqs[j].context.is_skipped
        /\ reqs[j].trace = <<"ack", "pre_handle">>
        /\ reqs[i].pc = "done"
        /\ Has(reqs[i].trace, "handler")
        /\ Has(reqs[i].trace, "slack.post_handle")
        /\ ~reqs[i].context.is_skipped

\* C27: once the app is serving, the app's callback registry is what it was
\* at startup: a registration made afterwards changes no key and no
\* dispatch looks up a handler registered afterwards.
C27_RegistryFrozenAfterStartup ==
    "late" \in DOMAIN lastReg =>
        /\ regs["app"] = lastReg.before["app"]
        /\ \A i \in Dispatched :
              reqs[i].handler =
                  get(lastReg.before["app"],
                      reqs[i].handle_type \o ":" \o ToStr(reqs[i].handle_name))

\* a registry whose combined mapping and three views hold the same entries
ViewsAgree(r) ==
    /\ \A c \in Categories :
          /\ \A n \in DOMAIN View(r, c) :
                /\ CatKey(c, n) \in DOMAIN r.callbacks
                /\ r.callbacks[CatKey(c, n)] = View(r, c)[n]
          /\ \A n \in Names : CatKey(c, n) \in DOMAIN r.callbacks => n \in DOMAIN View(r, c)
    /\ DOMAIN r.callbacks \subseteq {CatKey(c, n) : c \in Categories, n \in Names}
    /\ len(r) = Cardinality(DOMAIN r.events) + Cardinality(DOMAIN r.commands)
                    + Cardinality(DOMAIN r.actions)

\* C31: after any sequence of event, command and action registrations,
\* update_from and merge calls, every registry's combined mapping and its
\* three views agree: callbacks[category:n] is the view's entry for n, the
\* combined mapping has no other keys, and len(registry) is the sum of the
\* sizes of the three views.
C31_ViewsAgree ==
    /\ \A r \in RegIds : ViewsAgree(regs[r])
    /\ ViewsAgree(merged)

C31_Witness ==
    /\ lastReg.op = "update_from"
    /\ lastReg.reg = "app"
    /\ len(lastReg.before["app"]) = 1
    /\ len(regs["app"]) = 2
    /\ DOMAIN regs["app"].commands # {}
    /\ DOMAIN regs["app"].commands = DOMAIN lastReg.before["r1"].commands
    /\ ViewsAgree(regs["app"])

\* the hook calls of dispatch i that were made for the slack.error event
ErrorCalls(i) == SelectSeq(reqs[i].calls, LAMBDA c : c.event = "slack.error")

\* C32: slack.error is emitted only when the call of the registered handler
\* raises, once and directly after it; a dispatch ended by an exception of a
\* pre-handle filter or of a slack.pre_handle, slack.post_handle or
\* slack.unhandled hook carries that exception out with no slack.error
\* emission and no slack.error hook called.
C32_ErrorHookOnlyForHandler ==
    \A i \in Arrived :
        LET t == reqs[i].trace
        IN /\ (Has(t, "slack.error") \/ ErrorCalls(i) # <<>>) =>
                 /\ Count(t, "slack.error") = 1
                 /\ Count(t, "raised") + Count(t, "call_failed") = 1
                 /\ t[Len(t)] = "slack.error"
                 /\ t[Len(t) - 1] \in {"raised", "call_failed"}
           /\ (/\ reqs[i].pc = "done"
               /\ reqs[i].error # None
               /\ t # <<>>
               /\ t[Len(t)] \in {"pre_handle", "slack.pre_handle",
                                  "slack.post_handle", "slack.unhandled"})
              => /\ ~Has(t, "slack.error")
                 /\ ErrorCalls(i) = <<>>

C32_Witness ==
    \E i \in Arrived :
        /\ Len(plugins) = 1 /\ plugins[1].cls = "Flaky"
        /\ reqs[i].pc = "done"
        /\ reqs[i].error = "HookError"
        /\ Count(reqs[i].trace, "handler") = 1
        /\ reqs[i].trace[Len(reqs[i].trace)] = "slack.post_handle"
        /\ ErrorCalls(i) = <<>>

\* a dispatch ended by a raising slack.pre_handle hook
C32_WitnessPre ==
    \E i \in Arrived :
        /\ Len(plugins) = 1 /\ plugins[1].cls = "Strict"
        /\ reqs[i].pc = "done"
        /\ reqs[i].error = "HookError"
        /\ reqs[i].trace[Len(reqs[i].trace)] = "slack.pre_handle"

\* the built-in filters as dispatch i meets them: bot, retry, own user
BotApplies(i) ==
    Truthy(reqs[i].payload.event.bot_id) /\ config.ignore_bot_events

RetryApplies(i) == Truthy(reqs[i].retry) /\ config.ignore_retry_events

OwnUserApplies(i) ==
    reqs[i].handle_type = "events" /\ reqs[i].payload.event.user = config.app_user_id

\* C33: a dispatch whose pre-handle stage is left by a built-in filter ends
\* there: slack.pre_handle is not emitted, the handler is not called, none of
\* slack.post_handle, slack.error, slack.unhandled is emitted, no hook is
\* called and nothing is raised; the skip reason is that of the first filter
\* that applies in the order bot, retry, own user.  When no filter applies
\* slack.pre_handle is emitted.
C33_FilterSkipEndsDispatch ==
    \A i \in Arrived :
        (Has(reqs[i].trace, "pre_handle") /\ reqs[i].payload.event.present) =>
            IF BotApplies(i) \/ RetryApplies(i) \/ OwnUserApplies(i)
            THEN /\ reqs[i].pc = "done"
                 /\ reqs[i].trace = <<"ack", "pre_handle">>
                 /\ reqs[i].calls = <<>>
                 /\ reqs[i].error = None
                 /\ reqs[i].context.is_skipped
                 /\ reqs[i].context.reason =
                       IF BotApplies(i) THEN "Ignoring bot events"
                       ELSE IF RetryApplies(i) THEN "Ignoring retry events"
                       ELSE None
            ELSE /\ Len(reqs[i].trace) >= 3
                 /\ reqs[i].trace[3] = "slack.pre_handle"

C33_Witness ==
    \E i \in Arrived :
        /\ reqs[i].pc = "done"
        /\ reqs[i].payload.event.present
        /\ BotApplies(i) /\ RetryApplies(i)
        /\ reqs[i].handler # None
        /\ Len(plugins) = 2
        /\ reqs[i].trace = <<"ack", "pre_handle">>
        /\ reqs[i].context = [is_skipped |-> TRUE, reason |-> "Ignoring bot events"]

\* the slack.pre_handle hook calls of dispatch i
PreCalls(i) == SelectSeq(reqs[i].calls, LAMBDA c : c.event = "slack.pre_handle")

\* a slack.pre_handle hook of dispatch i ran and marked the context skipped
HookSkipped(i) ==
    \E k \in 1..Len(PreCalls(i)) :
        /\ PreCalls(i)[k].ran
        /\ MethodOf(plugins[PreCalls(i)[k].plugin].cls, PreCalls(i)[k].attr).effect = "skip"

\* C34: when a slack.pre_handle hook marks the context skipped the dispatch
\* ends after that emission with the handler not called and slack.post_handle
\* not emitted, and the emission itself goes on to its end: every plugin's
\* slack.pre_handle hooks, those after the skipping hook included, are called
\* in plugin order.
C34_HookSkipEndsDispatch ==
    \A i \in Arrived :
        HookSkipped(i) =>
            /\ reqs[i].pc = "done"
            /\ reqs[i].context.is_skipped
            /\ reqs[i].trace = <<"ack", "pre_handle", "slack.pre_handle">>
            /\ reqs[i].calls = PreCalls(i)
            /\ reqs[i].error = None
            /\ Len(PreCalls(i)) = HooksOf("slack.pre_handle")
            /\ \A q \in 1..Len(plugins) :
                  CalledOn(PreCalls(i), q) = TaggedFor(plugins[q].cls, "slack.pre_handle")

C34_Witness ==
    \E i \in Arrived :
        /\ reqs[i].pc = "done"
        /\ Len(plugins) = 2 /\ plugins[1].cls = "Gate" /\ plugins[2].cls = "Audit"
        /\ reqs[i].handler # None
        /\ reqs[i].context = [is_skipped |-> TRUE, reason |-> "hook"]
        /\ Len(reqs[i].calls) = 3
        /\ reqs[i].calls[1].attr = "a_veto"
        /\ reqs[i].calls[2].attr = "b_log" /\ reqs[i].calls[2].plugin = 1
        /\ reqs[i].calls[3].attr = "on_pre" /\ reqs[i].calls[3].plugin = 2
        /\ ~Has(reqs[i].trace, "handler")

\* C35: the app counts as started from the moment _on_startup begins, the
\* startup hooks already seeing it started, until the shutdown emission has
\* finished: every register_plugin_attribute or register_plugin_method call
\* made in that interval, from a startup or shutdown hook or from outside,
\* raises RuntimeError and leaves the attributes alone; after a shutdown
\* whose emission raised nothing the app is un-started, after one whose hook
\* raised it is still started.
C35_StartedInterval ==
    /\ lifespan = "init" => ~booted
    /\ lifespan \in {"up", "failed"} => booted
    /\ lifespan = "down" => (booted <=> lastEmit.raised # None)
    /\ lastEmit.event # None =>
          /\ \A j \in 1..Len(lastEmit.grafts) : lastEmit.grafts[j] = "RuntimeError"
          /\ "late" \notin DOMAIN app_attrs
    /\ (lastCall.op = "register_plugin_attribute" /\ lastCall.booted) =>
          /\ lastCall.raised = "RuntimeError"
          /\ app_attrs = lastCall.attrsBefore
          /\ plugin_attrs = lastCall.pattrsBefore
    /\ (/\ lastCall.op = "add_plugin"
        /\ lastCall.booted
        /\ lastCall.setup_called
        /\ PluginDefs[lastCall.cls].setup.do \in {"attribute", "method"}) =>
          /\ lastCall.raised = "RuntimeError"
          /\ app_attrs = lastCall.attrsBefore
          /\ plugin_attrs = lastCall.pattrsBefore

\* a shutdown hook that called register_plugin_attribute: RuntimeError, and
\* the app stays started
C35_Witness ==
    /\ lifespan = "down"
    /\ lastEmit.event = "shutdown"
    /\ lastEmit.grafts = <<"RuntimeError">>
    /\ lastEmit.raised = "RuntimeError"
    /\ booted

\* a startup hook that called register_plugin_attribute while the setup mode
\* had been left on by a failed add_plugin
C35_WitnessStartup ==
    /\ lastEmit.event = "startup"
    /\ plugin_setup_mode
    /\ lastEmit.grafts = <<"RuntimeError">>
    /\ booted

\* a shutdown that completed normally
C35_WitnessStopped ==
    /\ lifespan = "down"
    /\ lastEmit.raised = None
    /\ lastEmit.calls # <<>>
    /\ ~booted

====
